---- MODULE Spec2Model ----
(***************************************************************************)
(* Input normalization pipeline of the container-tracking backend:         *)
(* container number validation (ISO 6346), location dictionary lookup,     *)
(* format detection, record validation and the processing orchestrator.    *)
(*                                                                         *)
(* Strings are sequences of UTF-16 code units (integers), so that          *)
(* upper/lower-casing, regular expressions and substring search are        *)
(* computed character by character.  Optional values (undefined / null)    *)
(* are sequences of length 0 (absent) or 1 (present).  Confidences are     *)
(* exact rationals <<numerator, denominator>>.                             *)
(***************************************************************************)
EXTENDS Integers, Sequences, FiniteSets, TLC

\* pc, call: the component call in progress and what it returned.
\* logs: the audit log of the processor's ProcessingLogger, newest first.
\* started: the number of log entries created so far (the source of the ids).
\* sharedLogs: the audit log of the exported processingLogger, the logger
\* that the logs and stats endpoints read.
VARIABLES pc, call, logs, started, sharedLogs

vars == <<pc, call, logs, started, sharedLogs>>

----------------------------------------------------------------------------
(* Characters and strings *)

AsciiTable ==
  << " ", "!", "dquote", "#", "$", "%", "&", "'", "(", ")", "*", "+", ",", "-", ".", "/",
     "0", "1", "2", "3", "4", "5", "6", "7", "8", "9", ":", ";", "<", "=", ">", "?",
     "@", "A", "B", "C", "D", "E", "F", "G", "H", "I", "J", "K", "L", "M", "N", "O",
     "P", "Q", "R", "S", "T", "U", "V", "W", "X", "Y", "Z", "[", "backslash", "]", "^", "_",
     "backtick", "a", "b", "c", "d", "e", "f", "g", "h", "i", "j", "k", "l", "m", "n", "o",
     "p", "q", "r", "s", "t", "u", "v", "w", "x", "y", "z", "{", "|", "}", "~" >>

\* Code unit of a printable ASCII character given as a one-character string.
Ord(c) == 31 + (CHOOSE i \in 1..Len(AsciiTable) : AsciiTable[i] = c)

\* The string whose characters are listed in t.
S(t) == [i \in 1..Len(t) |-> Ord(t[i])]

None == <<>>
Some(x) == <<x>>
IsSome(o) == Len(o) > 0
Get(o) == o[1]

IsUpperAZ(c) == c \in 65..90
IsLowerAZ(c) == c \in 97..122
IsDigit(c) == c \in 48..57
IsCyrUpper(c) == c \in 1040..1071
IsCyrLower(c) == c \in 1072..1103
\* \s of a JavaScript regular expression
IsSpace(c) == c \in ({9, 10, 11, 12, 13, 32, 160, 5760, 8232, 8233, 8239, 8287, 12288, 65279}
                     \cup (8192..8202))
\* \w of a JavaScript regular expression
IsWordChar(c) == IsUpperAZ(c) \/ IsLowerAZ(c) \/ IsDigit(c) \/ c = 95

ToUpperChar(c) ==
  IF IsLowerAZ(c) \/ IsCyrLower(c) THEN c - 32
  ELSE IF c = 1105 THEN 1025 ELSE c

ToLowerChar(c) ==
  IF IsUpperAZ(c) \/ IsCyrUpper(c) THEN c + 32
  ELSE IF c = 1025 THEN 1105 ELSE c

toUpperCase(s) == [i \in 1..Len(s) |-> ToUpperChar(s[i])]
toLowerCase(s) == [i \in 1..Len(s) |-> ToLowerChar(s[i])]

\* s.slice(a, b) with 0-based a <= b, clipped to the string
slice(s, a, b) ==
  LET lo == IF a < Len(s) THEN a ELSE Len(s)
      hi == IF b < Len(s) THEN b ELSE Len(s)
  IN  IF hi <= lo THEN <<>> ELSE SubSeq(s, lo + 1, hi)

\* s.replace(/x/g, y) for single characters
ReplaceChar(s, x, y) == [i \in 1..Len(s) |-> IF s[i] = x THEN y ELSE s[i]]

\* t occurs in s at 1-based position i
OccursAt(s, t, i) ==
  /\ i >= 1
  /\ i + Len(t) - 1 <= Len(s)
  /\ \A j \in 1..Len(t) : s[i + j - 1] = t[j]

\* s.includes(t)
includes(s, t) == \E i \in 1..(Len(s) - Len(t) + 1) : OccursAt(s, t, i)

\* s.trim()
RECURSIVE TrimLeft(_)
TrimLeft(s) == IF Len(s) > 0 /\ IsSpace(s[1]) THEN TrimLeft(Tail(s)) ELSE s
RECURSIVE TrimRight(_)
TrimRight(s) ==
  IF Len(s) > 0 /\ IsSpace(s[Len(s)]) THEN TrimRight(SubSeq(s, 1, Len(s) - 1)) ELSE s
trim(s) == TrimRight(TrimLeft(s))

\* String(n) for a natural number n
RECURSIVE NatToString(_)
NatToString(n) ==
  IF n < 10 THEN <<48 + n>> ELSE Append(NatToString(n \div 10), 48 + (n % 10))

----------------------------------------------------------------------------
(* Exact rational arithmetic for confidences *)

RECURSIVE Gcd(_, _)
Gcd(a, b) == IF b = 0 THEN a ELSE Gcd(b, a % b)

Reduce(n, d) == LET g == Gcd(IF n < 0 THEN -n ELSE n, d) IN <<n \div g, d \div g>>
R(n, d) == Reduce(n, d)
RAdd(x, y) == Reduce(x[1] * y[2] + y[1] * x[2], x[2] * y[2])
RMul(x, y) == Reduce(x[1] * y[1], x[2] * y[2])
RLe(x, y) == x[1] * y[2] <= y[1] * x[2]
RLt(x, y) == x[1] * y[2] < y[1] * x[2]
RMin(x, y) == IF RLe(x, y) THEN x ELSE y
RMax(x, y) == IF RLe(x, y) THEN y ELSE x
RZero == R(0, 1)
ROne == R(1, 1)
InUnit(x) == RLe(RZero, x) /\ RLe(x, ROne)
\* Math.round(x * 100) / 100 for x >= 0
RoundHundredths(x) == R((200 * x[1] + x[2]) \div (2 * x[2]), 100)

----------------------------------------------------------------------------
(* containerValidator: ISO 6346 *)

ISO_6346_CHAR_VALUES(c) ==
  IF IsDigit(c) THEN Some(c - 48)
  ELSE IF IsUpperAZ(c)
       THEN Some(<<10, 12, 13, 14, 15, 16, 17, 18, 19,
                   20, 21, 23, 24, 25, 26, 27, 28, 29,
                   30, 31, 32, 34, 35, 36, 37, 38>>[c - 64])
       ELSE None

KNOWN_OWNER_CODES ==
  { S(<<"M","S","K","U">>), S(<<"M","S","C","U">>), S(<<"M","A","E","U">>),
    S(<<"M","R","K","U">>), S(<<"M","R","S","Q">>),
    S(<<"C","M","A","U">>), S(<<"C","G","M","U">>), S(<<"C","M","C","U">>),
    S(<<"C","S","Q","U">>), S(<<"C","C","L","U">>), S(<<"C","B","H","U">>),
    S(<<"H","L","B","U">>), S(<<"H","L","C","U">>), S(<<"H","L","X","U">>),
    S(<<"E","I","T","U">>), S(<<"E","G","S","U">>), S(<<"E","G","H","U">>),
    S(<<"O","O","L","U">>), S(<<"O","O","C","U">>),
    S(<<"Y","M","L","U">>), S(<<"Y","M","M","U">>),
    S(<<"H","D","M","U">>), S(<<"H","D","C","O">>),
    S(<<"T","C","L","U">>), S(<<"T","C","K","U">>), S(<<"T","C","N","U">>),
    S(<<"T","E","M","U">>), S(<<"T","G","H","U">>), S(<<"T","G","B","U">>),
    S(<<"T","R","H","U">>), S(<<"T","R","L","U">>),
    S(<<"G","E","S","U">>), S(<<"G","A","T","U">>),
    S(<<"F","C","I","U">>), S(<<"F","C","G","U">>),
    S(<<"S","E","G","U">>), S(<<"S","E","A","U">>),
    S(<<"C","R","X","U">>), S(<<"C","R","S","U">>),
    S(<<"A","P","H","U">>), S(<<"A","P","M","U">>), S(<<"A","P","R","U">>),
    S(<<"A","P","Z","U">>),
    S(<<"N","Y","K","U">>),
    S(<<"K","K","F","U">>), S(<<"K","K","L","U">>),
    S(<<"M","O","L","U">>),
    S(<<"P","C","I","U">>),
    S(<<"W","A","N","U">>), S(<<"W","F","H","U">>),
    S(<<"Z","I","M","U">>), S(<<"Z","C","S","U">>),
    S(<<"U","A","C","U">>), S(<<"U","A","S","U">>),
    S(<<"E","C","M","U">>),
    S(<<"G","L","D","U">>),
    S(<<"S","U","D","U">>),
    S(<<"F","A","N","U">>) }

RECURSIVE Pow2(_)
Pow2(i) == IF i = 0 THEN 1 ELSE 2 * Pow2(i - 1)

RECURSIVE CheckSum(_, _)
\* sum of value(code[j]) * 2^(j-1) over the first i characters
CheckSum(code, i) ==
  IF i = 0 THEN 0
  ELSE CheckSum(code, i - 1) + Get(ISO_6346_CHAR_VALUES(code[i])) * Pow2(i - 1)

\* Mutant: remainder 10 is rendered as "10" instead of "0".
calculateCheckDigit_NoWrap(code) ==
  IF Len(code) # 10 THEN <<48>>
  ELSE IF \E i \in 1..10 : ~IsSome(ISO_6346_CHAR_VALUES(code[i])) THEN <<48>>
  ELSE NatToString(CheckSum(code, 10) % 11)

calculateCheckDigit(code) ==
  IF Len(code) # 10 THEN <<48>>
  ELSE IF \E i \in 1..10 : ~IsSome(ISO_6346_CHAR_VALUES(code[i])) THEN <<48>>
  ELSE LET remainder == CheckSum(code, 10) % 11
       IN  IF remainder = 10 THEN <<48>> ELSE NatToString(remainder)

\* /^([A-Z]{4})(\d{n})$/
MatchesShape(s, n) ==
  /\ Len(s) = 4 + n
  /\ \A i \in 1..4 : IsUpperAZ(s[i])
  /\ \A i \in 5..(4 + n) : IsDigit(s[i])

\* upper-case, then drop white space, then drop everything but A-Z and 0-9
CleanContainerInput(input) ==
  LET up == toUpperCase(input)
      noSpace == SelectSeq(up, LAMBDA c : ~IsSpace(c))
  IN  SelectSeq(noSpace, LAMBDA c : IsUpperAZ(c) \/ IsDigit(c))

\* digits that look like letters, rewritten in the owner prefix
FixPrefix(prefix) ==
  ReplaceChar(ReplaceChar(ReplaceChar(ReplaceChar(prefix,
     Ord("0"), Ord("O")), Ord("1"), Ord("I")), Ord("5"), Ord("S")), Ord("8"), Ord("B"))

\* letters that look like digits, rewritten in the serial part
FixSuffix(suffix) ==
  ReplaceChar(ReplaceChar(ReplaceChar(ReplaceChar(ReplaceChar(suffix,
     Ord("O"), Ord("0")), Ord("I"), Ord("1")), Ord("L"), Ord("1")), Ord("S"), Ord("5")),
     Ord("B"), Ord("8"))

\* Mutant: the typo correction of the first four characters is skipped.
CorrectTypos_NoPrefixFix(cleaned) ==
  IF Len(cleaned) >= 4
  THEN slice(cleaned, 0, 4) \o FixSuffix(slice(cleaned, 4, Len(cleaned)))
  ELSE cleaned

CorrectTypos(cleaned) ==
  IF Len(cleaned) >= 4
  THEN FixPrefix(slice(cleaned, 0, 4)) \o FixSuffix(slice(cleaned, 4, Len(cleaned)))
  ELSE cleaned

EmptyDetails ==
  [ ownerCode |-> <<>>, categoryCode |-> <<>>, serialNumber |-> <<>>,
    checkDigit |-> <<>>, calculatedCheckDigit |-> <<>>,
    isKnownOwner |-> FALSE, checkDigitValid |-> FALSE ]

\* Mutant: the bonus for a matching check digit is 0.05 instead of 0.10.
ContainerConfidence_SmallBonus(checkDigitValid, isKnownOwner, nCorrections) ==
  RMin(RAdd(RAdd(RAdd(R(85, 100),
                      IF checkDigitValid THEN R(5, 100) ELSE RZero),
                 IF isKnownOwner THEN R(5, 100) ELSE RZero),
            IF nCorrections = 0 THEN R(2, 100) ELSE RZero),
       ROne)

\* Mutant: the result is not capped at 1.
ContainerConfidence_NoCap(checkDigitValid, isKnownOwner, nCorrections) ==
  RAdd(RAdd(RAdd(R(85, 100),
                 IF checkDigitValid THEN R(10, 100) ELSE RZero),
            IF isKnownOwner THEN R(5, 100) ELSE RZero),
       IF nCorrections = 0 THEN R(2, 100) ELSE RZero)

ContainerConfidence(checkDigitValid, isKnownOwner, nCorrections) ==
  RMin(RAdd(RAdd(RAdd(R(85, 100),
                      IF checkDigitValid THEN R(10, 100) ELSE RZero),
                 IF isKnownOwner THEN R(5, 100) ELSE RZero),
            IF nCorrections = 0 THEN R(2, 100) ELSE RZero),
       ROne)

\* Mutant: the 6-digit form (no check digit) is rejected.
ShapeAccepted_SevenOnly(s) == MatchesShape(s, 7)

\* the two shapes that validateContainerNumber accepts
ShapeAccepted(s) == MatchesShape(s, 7) \/ MatchesShape(s, 6)

\* the corrections recorded up to the category check
EarlyCorrections(originalCleaned, fixed, cleaned) ==
  (IF fixed # originalCleaned THEN << <<"typos", originalCleaned, fixed>> >> ELSE <<>>)
  \o (IF ~MatchesShape(fixed, 7)
      THEN << <<"checkDigitAdded", slice(cleaned, 10, 11)>> >> ELSE <<>>)
  \o (IF slice(cleaned, 3, 4) \notin {S(<<"U">>), S(<<"J">>), S(<<"Z">>)}
      THEN << <<"unusualCategory", slice(cleaned, 3, 4)>> >> ELSE <<>>)

\* all corrections: the check-digit mismatch is recorded last
AllCorrections(early, checkDigit, calculatedCheckDigit) ==
  IF checkDigit # calculatedCheckDigit
  THEN Append(early, <<"checkDigitMismatch", checkDigit, calculatedCheckDigit>>)
  ELSE early

\* the result for an identifier of the accepted shape
AcceptedContainer(cleaned, calculatedCheckDigit, isKnownOwner, corrections) ==
  [ isValid |-> TRUE,
    containerNumber |-> cleaned,
    confidence |-> ContainerConfidence(slice(cleaned, 10, 11) = calculatedCheckDigit,
                                       isKnownOwner, Len(corrections)),
    details |-> [ ownerCode |-> slice(cleaned, 0, 4),
                  categoryCode |-> slice(cleaned, 3, 4),
                  serialNumber |-> slice(cleaned, 4, 10),
                  checkDigit |-> slice(cleaned, 10, 11),
                  calculatedCheckDigit |-> calculatedCheckDigit,
                  isKnownOwner |-> isKnownOwner,
                  checkDigitValid |-> slice(cleaned, 10, 11) = calculatedCheckDigit ],
    corrections |-> IF Len(corrections) > 0 THEN Some(corrections) ELSE None,
    error |-> None ]

ValidateChecked11(cleaned, calculatedCheckDigit, early) ==
  AcceptedContainer(cleaned, calculatedCheckDigit,
                    slice(cleaned, 0, 4) \in KNOWN_OWNER_CODES,
                    AllCorrections(early, slice(cleaned, 10, 11), calculatedCheckDigit))

\* steps 4 to 8 for the 11 characters of an accepted identifier
ValidateCleaned11(originalCleaned, fixed, cleaned) ==
  ValidateChecked11(cleaned, calculateCheckDigit(slice(cleaned, 0, 10)),
                    EarlyCorrections(originalCleaned, fixed, cleaned))

\* step 3: the shape test; a 10-character identifier gets its check digit
ValidateFixed(input, originalCleaned, fixed) ==
  IF ~ShapeAccepted(fixed)
  THEN [ isValid |-> FALSE, containerNumber |-> input, confidence |-> RZero,
         details |-> EmptyDetails, corrections |-> None,
         error |-> Some("InvalidContainerFormat") ]
  ELSE ValidateCleaned11(originalCleaned, fixed,
                         IF MatchesShape(fixed, 7) THEN fixed
                         ELSE fixed \o calculateCheckDigit(fixed))

\* step 2: the look-alike corrections
ValidateCleaned(input, originalCleaned) ==
  ValidateFixed(input, originalCleaned, CorrectTypos(originalCleaned))

validateContainerNumber(input) == ValidateCleaned(input, CleanContainerInput(input))

----------------------------------------------------------------------------
(* locationDictionary: the gazetteer and findLocation *)

RUSSIAN_STATIONS ==
  <<
    \* Иня-Восточная: иня восточная | иня-вост | иня вост
    [ name |-> <<1048, 1085, 1103, 45, 1042, 1086, 1089, 1090, 1086, 1095, 1085, 1072, 1103>>,
      type |-> "STATION", country |-> "RU",
      aliases |-> << <<1080, 1085, 1103, 32, 1074, 1086, 1089, 1090, 1086, 1095, 1085, 1072, 1103>>,
                    <<1080, 1085, 1103, 45, 1074, 1086, 1089, 1090>>,
                    <<1080, 1085, 1103, 32, 1074, 1086, 1089, 1090>> >> ],
    \* Гончарово: гончарово | goncharovo
    [ name |-> <<1043, 1086, 1085, 1095, 1072, 1088, 1086, 1074, 1086>>,
      type |-> "STATION", country |-> "RU",
      aliases |-> << <<1075, 1086, 1085, 1095, 1072, 1088, 1086, 1074, 1086>>,
                    <<103, 111, 110, 99, 104, 97, 114, 111, 118, 111>> >> ],
    \* Забайкальск: забайкальск | zabaikalsk
    [ name |-> <<1047, 1072, 1073, 1072, 1081, 1082, 1072, 1083, 1100, 1089, 1082>>,
      type |-> "STATION", country |-> "RU",
      aliases |-> << <<1079, 1072, 1073, 1072, 1081, 1082, 1072, 1083, 1100, 1089, 1082>>,
                    <<122, 97, 98, 97, 105, 107, 97, 108, 115, 107>> >> ],
    \* Наушки: наушки | naushki
    [ name |-> <<1053, 1072, 1091, 1096, 1082, 1080>>,
      type |-> "STATION", country |-> "RU",
      aliases |-> << <<1085, 1072, 1091, 1096, 1082, 1080>>,
                    <<110, 97, 117, 115, 104, 107, 105>> >> ],
    \* Новосибирск: новосибирск | новосиб | novosibirsk | нск
    [ name |-> <<1053, 1086, 1074, 1086, 1089, 1080, 1073, 1080, 1088, 1089, 1082>>,
      type |-> "STATION", country |-> "RU",
      aliases |-> << <<1085, 1086, 1074, 1086, 1089, 1080, 1073, 1080, 1088, 1089, 1082>>,
                    <<1085, 1086, 1074, 1086, 1089, 1080, 1073>>,
                    <<110, 111, 118, 111, 115, 105, 98, 105, 114, 115, 107>>,
                    <<1085, 1089, 1082>> >> ],
    \* Екатеринбург: екатеринбург | екб | ekaterinburg | yekaterinburg
    [ name |-> <<1045, 1082, 1072, 1090, 1077, 1088, 1080, 1085, 1073, 1091, 1088, 1075>>,
      type |-> "STATION", country |-> "RU",
      aliases |-> << <<1077, 1082, 1072, 1090, 1077, 1088, 1080, 1085, 1073, 1091, 1088, 1075>>,
                    <<1077, 1082, 1073>>,
                    <<101, 107, 97, 116, 101, 114, 105, 110, 98, 117, 114, 103>>,
                    <<121, 101, 107, 97, 116, 101, 114, 105, 110, 98, 117, 114, 103>> >> ],
    \* Красноярск: красноярск | krasnoyarsk
    [ name |-> <<1050, 1088, 1072, 1089, 1085, 1086, 1103, 1088, 1089, 1082>>,
      type |-> "STATION", country |-> "RU",
      aliases |-> << <<1082, 1088, 1072, 1089, 1085, 1086, 1103, 1088, 1089, 1082>>,
                    <<107, 114, 97, 115, 110, 111, 121, 97, 114, 115, 107>> >> ],
    \* Иркутск: иркутск | irkutsk
    [ name |-> <<1048, 1088, 1082, 1091, 1090, 1089, 1082>>,
      type |-> "STATION", country |-> "RU",
      aliases |-> << <<1080, 1088, 1082, 1091, 1090, 1089, 1082>>,
                    <<105, 114, 107, 117, 116, 115, 107>> >> ],
    \* Хабаровск: хабаровск | khabarovsk
    [ name |-> <<1061, 1072, 1073, 1072, 1088, 1086, 1074, 1089, 1082>>,
      type |-> "STATION", country |-> "RU",
      aliases |-> << <<1093, 1072, 1073, 1072, 1088, 1086, 1074, 1089, 1082>>,
                    <<107, 104, 97, 98, 97, 114, 111, 118, 115, 107>> >> ],
    \* Чита: чита | chita
    [ name |-> <<1063, 1080, 1090, 1072>>,
      type |-> "STATION", country |-> "RU",
      aliases |-> << <<1095, 1080, 1090, 1072>>,
                    <<99, 104, 105, 116, 97>> >> ],
    \* Улан-Удэ: улан-удэ | улан удэ | ulan-ude
    [ name |-> <<1059, 1083, 1072, 1085, 45, 1059, 1076, 1101>>,
      type |-> "STATION", country |-> "RU",
      aliases |-> << <<1091, 1083, 1072, 1085, 45, 1091, 1076, 1101>>,
                    <<1091, 1083, 1072, 1085, 32, 1091, 1076, 1101>>,
                    <<117, 108, 97, 110, 45, 117, 100, 101>> >> ],
    \* Омск: омск | omsk
    [ name |-> <<1054, 1084, 1089, 1082>>,
      type |-> "STATION", country |-> "RU",
      aliases |-> << <<1086, 1084, 1089, 1082>>,
                    <<111, 109, 115, 107>> >> ],
    \* Тюмень: тюмень | tyumen
    [ name |-> <<1058, 1102, 1084, 1077, 1085, 1100>>,
      type |-> "STATION", country |-> "RU",
      aliases |-> << <<1090, 1102, 1084, 1077, 1085, 1100>>,
                    <<116, 121, 117, 109, 101, 110>> >> ],
    \* Пермь: пермь | perm
    [ name |-> <<1055, 1077, 1088, 1084, 1100>>,
      type |-> "STATION", country |-> "RU",
      aliases |-> << <<1087, 1077, 1088, 1084, 1100>>,
                    <<112, 101, 114, 109>> >> ],
    \* Казань: казань | kazan
    [ name |-> <<1050, 1072, 1079, 1072, 1085, 1100>>,
      type |-> "STATION", country |-> "RU",
      aliases |-> << <<1082, 1072, 1079, 1072, 1085, 1100>>,
                    <<107, 97, 122, 97, 110>> >> ],
    \* Нижний Новгород: нижний новгород | нн | nizhniy novgorod
    [ name |-> <<1053, 1080, 1078, 1085, 1080, 1081, 32, 1053, 1086, 1074, 1075, 1086, 1088, 1086, 1076>>,
      type |-> "STATION", country |-> "RU",
      aliases |-> << <<1085, 1080, 1078, 1085, 1080, 1081, 32, 1085, 1086, 1074, 1075, 1086, 1088, 1086, 1076>>,
                    <<1085, 1085>>,
                    <<110, 105, 122, 104, 110, 105, 121, 32, 110, 111, 118, 103, 111, 114, 111, 100>> >> ],
    \* Москва: москва | мск | moscow
    [ name |-> <<1052, 1086, 1089, 1082, 1074, 1072>>,
      type |-> "STATION", country |-> "RU",
      aliases |-> << <<1084, 1086, 1089, 1082, 1074, 1072>>,
                    <<1084, 1089, 1082>>,
                    <<109, 111, 115, 99, 111, 119>> >> ],
    \* Орехово-Зуево: орехово-зуево | орехово зуево | orekhovo-zuevo
    [ name |-> <<1054, 1088, 1077, 1093, 1086, 1074, 1086, 45, 1047, 1091, 1077, 1074, 1086>>,
      type |-> "STATION", country |-> "RU",
      aliases |-> << <<1086, 1088, 1077, 1093, 1086, 1074, 1086, 45, 1079, 1091, 1077, 1074, 1086>>,
                    <<1086, 1088, 1077, 1093, 1086, 1074, 1086, 32, 1079, 1091, 1077, 1074, 1086>>,
                    <<111, 114, 101, 107, 104, 111, 118, 111, 45, 122, 117, 101, 118, 111>> >> ],
    \* Санкт-Петербург: санкт-петербург | спб | питер | saint-petersburg
    [ name |-> <<1057, 1072, 1085, 1082, 1090, 45, 1055, 1077, 1090, 1077, 1088, 1073, 1091, 1088, 1075>>,
      type |-> "STATION", country |-> "RU",
      aliases |-> << <<1089, 1072, 1085, 1082, 1090, 45, 1087, 1077, 1090, 1077, 1088, 1073, 1091, 1088, 1075>>,
                    <<1089, 1087, 1073>>,
                    <<1087, 1080, 1090, 1077, 1088>>,
                    <<115, 97, 105, 110, 116, 45, 112, 101, 116, 101, 114, 115, 98, 117, 114, 103>> >> ],
    \* Ворсино: ворсино | vorsino
    [ name |-> <<1042, 1086, 1088, 1089, 1080, 1085, 1086>>,
      type |-> "STATION", country |-> "RU",
      aliases |-> << <<1074, 1086, 1088, 1089, 1080, 1085, 1086>>,
                    <<118, 111, 114, 115, 105, 110, 111>> >> ],
    \* Силикатная: силикатная | silikatnaya
    [ name |-> <<1057, 1080, 1083, 1080, 1082, 1072, 1090, 1085, 1072, 1103>>,
      type |-> "STATION", country |-> "RU",
      aliases |-> << <<1089, 1080, 1083, 1080, 1082, 1072, 1090, 1085, 1072, 1103>>,
                    <<115, 105, 108, 105, 107, 97, 116, 110, 97, 121, 97>> >> ],
    \* Электроугли: электроугли | elektrougli
    [ name |-> <<1069, 1083, 1077, 1082, 1090, 1088, 1086, 1091, 1075, 1083, 1080>>,
      type |-> "STATION", country |-> "RU",
      aliases |-> << <<1101, 1083, 1077, 1082, 1090, 1088, 1086, 1091, 1075, 1083, 1080>>,
                    <<101, 108, 101, 107, 116, 114, 111, 117, 103, 108, 105>> >> ]
  >>

PORTS ==
  <<
    \* Владивосток: владивосток | vladivostok | влад
    [ name |-> <<1042, 1083, 1072, 1076, 1080, 1074, 1086, 1089, 1090, 1086, 1082>>,
      type |-> "PORT", country |-> "RU",
      aliases |-> << <<1074, 1083, 1072, 1076, 1080, 1074, 1086, 1089, 1090, 1086, 1082>>,
                    <<118, 108, 97, 100, 105, 118, 111, 115, 116, 111, 107>>,
                    <<1074, 1083, 1072, 1076>> >> ],
    \* Восточный: восточный | vostochny | порт восточный
    [ name |-> <<1042, 1086, 1089, 1090, 1086, 1095, 1085, 1099, 1081>>,
      type |-> "PORT", country |-> "RU",
      aliases |-> << <<1074, 1086, 1089, 1090, 1086, 1095, 1085, 1099, 1081>>,
                    <<118, 111, 115, 116, 111, 99, 104, 110, 121>>,
                    <<1087, 1086, 1088, 1090, 32, 1074, 1086, 1089, 1090, 1086, 1095, 1085, 1099, 1081>> >> ],
    \* Находка: находка | nakhodka
    [ name |-> <<1053, 1072, 1093, 1086, 1076, 1082, 1072>>,
      type |-> "PORT", country |-> "RU",
      aliases |-> << <<1085, 1072, 1093, 1086, 1076, 1082, 1072>>,
                    <<110, 97, 107, 104, 111, 100, 107, 97>> >> ],
    \* Новороссийск: новороссийск | novorossiysk | нврс
    [ name |-> <<1053, 1086, 1074, 1086, 1088, 1086, 1089, 1089, 1080, 1081, 1089, 1082>>,
      type |-> "PORT", country |-> "RU",
      aliases |-> << <<1085, 1086, 1074, 1086, 1088, 1086, 1089, 1089, 1080, 1081, 1089, 1082>>,
                    <<110, 111, 118, 111, 114, 111, 115, 115, 105, 121, 115, 107>>,
                    <<1085, 1074, 1088, 1089>> >> ],
    \* Санкт-Петербург: большой порт спб | порт спб
    [ name |-> <<1057, 1072, 1085, 1082, 1090, 45, 1055, 1077, 1090, 1077, 1088, 1073, 1091, 1088, 1075>>,
      type |-> "PORT", country |-> "RU",
      aliases |-> << <<1073, 1086, 1083, 1100, 1096, 1086, 1081, 32, 1087, 1086, 1088, 1090, 32, 1089, 1087, 1073>>,
                    <<1087, 1086, 1088, 1090, 32, 1089, 1087, 1073>> >> ],
    \* Шанхай: шанхай | shanghai | sha
    [ name |-> <<1064, 1072, 1085, 1093, 1072, 1081>>,
      type |-> "PORT", country |-> "CN",
      aliases |-> << <<1096, 1072, 1085, 1093, 1072, 1081>>,
                    <<115, 104, 97, 110, 103, 104, 97, 105>>,
                    <<115, 104, 97>> >> ],
    \* Циндао: циндао | qingdao | tsingtao
    [ name |-> <<1062, 1080, 1085, 1076, 1072, 1086>>,
      type |-> "PORT", country |-> "CN",
      aliases |-> << <<1094, 1080, 1085, 1076, 1072, 1086>>,
                    <<113, 105, 110, 103, 100, 97, 111>>,
                    <<116, 115, 105, 110, 103, 116, 97, 111>> >> ],
    \* Нинбо: нинбо | ningbo
    [ name |-> <<1053, 1080, 1085, 1073, 1086>>,
      type |-> "PORT", country |-> "CN",
      aliases |-> << <<1085, 1080, 1085, 1073, 1086>>,
                    <<110, 105, 110, 103, 98, 111>> >> ],
    \* Далянь: далянь | dalian | дальний
    [ name |-> <<1044, 1072, 1083, 1103, 1085, 1100>>,
      type |-> "PORT", country |-> "CN",
      aliases |-> << <<1076, 1072, 1083, 1103, 1085, 1100>>,
                    <<100, 97, 108, 105, 97, 110>>,
                    <<1076, 1072, 1083, 1100, 1085, 1080, 1081>> >> ],
    \* Тяньцзинь: тяньцзинь | tianjin
    [ name |-> <<1058, 1103, 1085, 1100, 1094, 1079, 1080, 1085, 1100>>,
      type |-> "PORT", country |-> "CN",
      aliases |-> << <<1090, 1103, 1085, 1100, 1094, 1079, 1080, 1085, 1100>>,
                    <<116, 105, 97, 110, 106, 105, 110>> >> ],
    \* Гуанчжоу: гуанчжоу | guangzhou | кантон
    [ name |-> <<1043, 1091, 1072, 1085, 1095, 1078, 1086, 1091>>,
      type |-> "PORT", country |-> "CN",
      aliases |-> << <<1075, 1091, 1072, 1085, 1095, 1078, 1086, 1091>>,
                    <<103, 117, 97, 110, 103, 122, 104, 111, 117>>,
                    <<1082, 1072, 1085, 1090, 1086, 1085>> >> ],
    \* Шэньчжэнь: шэньчжэнь | shenzhen
    [ name |-> <<1064, 1101, 1085, 1100, 1095, 1078, 1101, 1085, 1100>>,
      type |-> "PORT", country |-> "CN",
      aliases |-> << <<1096, 1101, 1085, 1100, 1095, 1078, 1101, 1085, 1100>>,
                    <<115, 104, 101, 110, 122, 104, 101, 110>> >> ],
    \* Сямынь: сямынь | xiamen | амой
    [ name |-> <<1057, 1103, 1084, 1099, 1085, 1100>>,
      type |-> "PORT", country |-> "CN",
      aliases |-> << <<1089, 1103, 1084, 1099, 1085, 1100>>,
                    <<120, 105, 97, 109, 101, 110>>,
                    <<1072, 1084, 1086, 1081>> >> ],
    \* Пусан: пусан | busan | pusan
    [ name |-> <<1055, 1091, 1089, 1072, 1085>>,
      type |-> "PORT", country |-> "KR",
      aliases |-> << <<1087, 1091, 1089, 1072, 1085>>,
                    <<98, 117, 115, 97, 110>>,
                    <<112, 117, 115, 97, 110>> >> ],
    \* Инчхон: инчхон | incheon
    [ name |-> <<1048, 1085, 1095, 1093, 1086, 1085>>,
      type |-> "PORT", country |-> "KR",
      aliases |-> << <<1080, 1085, 1095, 1093, 1086, 1085>>,
                    <<105, 110, 99, 104, 101, 111, 110>> >> ],
    \* Сингапур: сингапур | singapore
    [ name |-> <<1057, 1080, 1085, 1075, 1072, 1087, 1091, 1088>>,
      type |-> "PORT", country |-> "SG",
      aliases |-> << <<1089, 1080, 1085, 1075, 1072, 1087, 1091, 1088>>,
                    <<115, 105, 110, 103, 97, 112, 111, 114, 101>> >> ],
    \* Гонконг: гонконг | hong kong | hongkong
    [ name |-> <<1043, 1086, 1085, 1082, 1086, 1085, 1075>>,
      type |-> "PORT", country |-> "HK",
      aliases |-> << <<1075, 1086, 1085, 1082, 1086, 1085, 1075>>,
                    <<104, 111, 110, 103, 32, 107, 111, 110, 103>>,
                    <<104, 111, 110, 103, 107, 111, 110, 103>> >> ],
    \* Токио: токио | tokyo
    [ name |-> <<1058, 1086, 1082, 1080, 1086>>,
      type |-> "PORT", country |-> "JP",
      aliases |-> << <<1090, 1086, 1082, 1080, 1086>>,
                    <<116, 111, 107, 121, 111>> >> ],
    \* Иокогама: иокогама | yokohama
    [ name |-> <<1048, 1086, 1082, 1086, 1075, 1072, 1084, 1072>>,
      type |-> "PORT", country |-> "JP",
      aliases |-> << <<1080, 1086, 1082, 1086, 1075, 1072, 1084, 1072>>,
                    <<121, 111, 107, 111, 104, 97, 109, 97>> >> ],
    \* Роттердам: роттердам | rotterdam
    [ name |-> <<1056, 1086, 1090, 1090, 1077, 1088, 1076, 1072, 1084>>,
      type |-> "PORT", country |-> "NL",
      aliases |-> << <<1088, 1086, 1090, 1090, 1077, 1088, 1076, 1072, 1084>>,
                    <<114, 111, 116, 116, 101, 114, 100, 97, 109>> >> ],
    \* Гамбург: гамбург | hamburg
    [ name |-> <<1043, 1072, 1084, 1073, 1091, 1088, 1075>>,
      type |-> "PORT", country |-> "DE",
      aliases |-> << <<1075, 1072, 1084, 1073, 1091, 1088, 1075>>,
                    <<104, 97, 109, 98, 117, 114, 103>> >> ]
  >>

WAREHOUSES ==
  <<
    \* СВХ Шереметьево: свх шереметьево | шереметьево свх
    [ name |-> <<1057, 1042, 1061, 32, 1064, 1077, 1088, 1077, 1084, 1077, 1090, 1100, 1077, 1074, 1086>>,
      type |-> "WAREHOUSE", country |-> "RU",
      aliases |-> << <<1089, 1074, 1093, 32, 1096, 1077, 1088, 1077, 1084, 1077, 1090, 1100, 1077, 1074, 1086>>,
                    <<1096, 1077, 1088, 1077, 1084, 1077, 1090, 1100, 1077, 1074, 1086, 32, 1089, 1074, 1093>> >> ],
    \* СВХ Домодедово: свх домодедово | домодедово свх
    [ name |-> <<1057, 1042, 1061, 32, 1044, 1086, 1084, 1086, 1076, 1077, 1076, 1086, 1074, 1086>>,
      type |-> "WAREHOUSE", country |-> "RU",
      aliases |-> << <<1089, 1074, 1093, 32, 1076, 1086, 1084, 1086, 1076, 1077, 1076, 1086, 1074, 1086>>,
                    <<1076, 1086, 1084, 1086, 1076, 1077, 1076, 1086, 1074, 1086, 32, 1089, 1074, 1093>> >> ],
    \* Терминал Ворсино: терминал ворсино | ворсино терминал
    [ name |-> <<1058, 1077, 1088, 1084, 1080, 1085, 1072, 1083, 32, 1042, 1086, 1088, 1089, 1080, 1085, 1086>>,
      type |-> "WAREHOUSE", country |-> "RU",
      aliases |-> << <<1090, 1077, 1088, 1084, 1080, 1085, 1072, 1083, 32, 1074, 1086, 1088, 1089, 1080, 1085, 1086>>,
                    <<1074, 1086, 1088, 1089, 1080, 1085, 1086, 32, 1090, 1077, 1088, 1084, 1080, 1085, 1072, 1083>> >> ]
  >>

ALL_LOCATIONS == RUSSIAN_STATIONS \o PORTS \o WAREHOUSES

\* number of Map.set calls made for the entries before the n-th: one for the
\* name (k = 0) and one for each alias k of every earlier entry i
InsertionsBefore(locations, n) ==
  Cardinality(UNION {{<<i, k>> : k \in 0..Len(locations[i].aliases)} : i \in 1..(n - 1)})

\* the k-th Map.set call made for an entry: its name first, then its aliases
InsertionFor(loc, k) ==
  [ key |-> toLowerCase(IF k = 1 THEN loc.name ELSE loc.aliases[k - 1]),
    value |-> loc ]

\* the p-th Map.set call overall, given the number of calls made before each
\* entry: it belongs to the entry n with before[n] < p <= before[n + 1]
InsertionOfEntry(locations, before, p, n) == InsertionFor(locations[n], p - before[n])

InsertionAt(locations, before, p) ==
  InsertionOfEntry(locations, before, p,
                   CHOOSE n \in 1..Len(locations) : before[n] < p /\ p <= before[n + 1])

InsertionsOf(locations, before) ==
  [p \in 1..before[Len(locations) + 1] |-> InsertionAt(locations, before, p)]

InsertionCounts(locations) ==
  [n \in 1..(Len(locations) + 1) |-> InsertionsBefore(locations, n)]

\* the Map.set calls of the index construction, in program order: for every
\* entry its lower-cased name, then its lower-cased aliases
Insertions == InsertionsOf(ALL_LOCATIONS, InsertionCounts(ALL_LOCATIONS))

\* Mutant: a key that is set again keeps the value of its first insertion.
MapEntries_FirstWins(ins) ==
  LET firsts == {p \in 1..Len(ins) : \A q \in 1..(p - 1) : ins[q].key # ins[p].key}
      rank == [p \in firsts |-> Cardinality({q \in firsts : q <= p})]
  IN  [i \in 1..Cardinality(firsts) |-> ins[CHOOSE p \in firsts : rank[p] = i]]

\* Map.prototype.set applied in sequence: the map iterates its keys in the
\* order of their first insertion, each with the value of its last insertion
MapEntries(ins) ==
  LET firsts == {p \in 1..Len(ins) : \A q \in 1..(p - 1) : ins[q].key # ins[p].key}
      rank == [p \in firsts |-> Cardinality({q \in firsts : q <= p})]
  IN  [i \in 1..Cardinality(firsts) |->
         LET p == CHOOSE p \in firsts : rank[p] = i
             last == CHOOSE q \in p..Len(ins) :
                       /\ ins[q].key = ins[p].key
                       /\ \A r \in (q + 1)..Len(ins) : ins[r].key # ins[p].key
         IN  [key |-> ins[p].key, value |-> ins[last].value]]

locationIndex == MapEntries(Insertions)

\* the value stored under a key of a Map, None when the key is absent
EntryOf(index, key) ==
  IF \E i \in 1..Len(index) : index[i].key = key
  THEN Some(index[CHOOSE i \in 1..Len(index) : index[i].key = key].value)
  ELSE None

\* Map.prototype.get
IndexGet(key) == EntryOf(locationIndex, key)

\* smallest element of a set of numbers, 0 for the empty set
FirstOf(hits) == IF hits = {} THEN 0 ELSE CHOOSE i \in hits : \A j \in hits : i <= j

\* positions of the entries whose key occurs in the text
HitsIn(index, lowerText) == {i \in 1..Len(index) : includes(lowerText, index[i].key)}

\* of a set of positions, one with the longest key; 0 for the empty set
LongestOf(index, hits) ==
  IF hits = {} THEN 0
  ELSE CHOOSE i \in hits : \A j \in hits : Len(index[j].key) <= Len(index[i].key)

\* Mutant: the scan of the index prefers the longest matching key.
FirstIndexHit_Longest(lowerText) ==
  LongestOf(locationIndex, HitsIn(locationIndex, lowerText))

\* position of the first entry, in insertion order, whose key occurs in the
\* text; 0 when there is none
FirstIndexHit(lowerText) == FirstOf(HitsIn(locationIndex, lowerText))

\* the class [А-Яа-яёЁA-Za-z\-]
IsNameChar(c) ==
  \/ IsCyrUpper(c) \/ IsCyrLower(c) \/ c = 1105 \/ c = 1025
  \/ IsUpperAZ(c) \/ IsLowerAZ(c) \/ c = 45

\* \s+ from position i: the end (exclusive, 1-based) of the longest run of
\* white space
SpaceRunEnd(s, i) ==
  CHOOSE j \in i..(Len(s) + 1) :
    /\ j = Len(s) + 1 \/ ~IsSpace(s[j])
    /\ \A k \in i..(j - 1) : IsSpace(s[k])

\* [name characters]+ from position i: the end of the longest run
NameRunEnd(s, i) ==
  CHOOSE j \in i..(Len(s) + 1) :
    /\ j = Len(s) + 1 \/ ~IsNameChar(s[j])
    /\ \A k \in i..(j - 1) : IsNameChar(s[k])

\* the match of a keyword that ends before position sp, when white space runs
\* to nm and name characters run to en
KeywordNameFrom(text, i, sp, nm, en) ==
  IF nm > sp /\ en > nm
  THEN Some([from |-> i, name |-> SubSeq(text, nm, en - 1),
             matched |-> SubSeq(text, i, en - 1)])
  ELSE None

KeywordNameAfter(text, i, sp, nm) == KeywordNameFrom(text, i, sp, nm, NameRunEnd(text, nm))

\* the keywords that occur at position i, in any letter case
KeywordsAt(text, keywords, i) == {k \in keywords : OccursAt(toLowerCase(text), k, i)}

\* /(?:keyword1|keyword2|...)\s+([name characters]+)/i matched at position i:
\* the start, the captured name and the matched text, or None
KeywordNameWith(text, i, kws) ==
  IF kws = {} THEN None
  ELSE KeywordNameAfter(text, i, i + Len(CHOOSE k \in kws : TRUE),
                        SpaceRunEnd(text, i + Len(CHOOSE k \in kws : TRUE)))

KeywordNameAt(text, keywords, i) == KeywordNameWith(text, i, KeywordsAt(text, keywords, i))

\* String.prototype.match without the g flag: the leftmost match
KeywordNameMatch(text, keywords) ==
  IF \E i \in 1..Len(text) : IsSome(KeywordNameAt(text, keywords, i))
  THEN KeywordNameAt(text, keywords,
                     CHOOSE i \in 1..Len(text) :
                       /\ IsSome(KeywordNameAt(text, keywords, i))
                       /\ \A j \in 1..(i - 1) : ~IsSome(KeywordNameAt(text, keywords, j)))
  ELSE None

StationKeywords == { <<1089, 1090, 46>>, <<1089, 1090, 1072, 1085, 1094, 1080, 1103>>, <<1089, 1090, 1072, 1085, 1094, 1080, 1080>> }
PortKeywords == { <<1087, 1086, 1088, 1090>>, <<112, 111, 114, 116>> }

\* a location that is named in the text but is not in the gazetteer
Unregistered(name, type, country) ==
  [name |-> name, type |-> type, country |-> country, aliases |-> <<>>]

\* Mutant: an unregistered station or port is reported with confidence 1.7.
PatternConfidence_TooHigh(registered) == IF registered THEN R(95, 100) ELSE R(170, 100)

PatternConfidence(registered) == IF registered THEN R(95, 100) ELSE R(70, 100)

\* the result for a name captured after a keyword, given its index entry
PatternResult(match, loc, type, country) ==
  [ found |-> TRUE,
    location |-> IF IsSome(loc) THEN loc
                 ELSE Some(Unregistered(match.name, type, country)),
    matchedText |-> match.matched,
    confidence |-> PatternConfidence(IsSome(loc)) ]

\* the result, given the first hit of the index scan and the two pattern matches
LocationResult(hit, stationMatch, portMatch) ==
  IF hit # 0
  THEN [ found |-> TRUE, location |-> Some(locationIndex[hit].value),
         matchedText |-> locationIndex[hit].key, confidence |-> R(95, 100) ]
  ELSE IF IsSome(stationMatch)
  THEN PatternResult(Get(stationMatch), IndexGet(toLowerCase(Get(stationMatch).name)),
                     "STATION", "RU")
  ELSE IF IsSome(portMatch)
  THEN PatternResult(Get(portMatch), IndexGet(toLowerCase(Get(portMatch).name)),
                     "PORT", "UNKNOWN")
  ELSE [ found |-> FALSE, location |-> None, matchedText |-> <<>>,
         confidence |-> RZero ]

findLocation(text) ==
  LocationResult(FirstIndexHit(toLowerCase(text)),
                 KeywordNameMatch(text, StationKeywords),
                 KeywordNameMatch(text, PortKeywords))

\* text.trim().replace(/^\w/, c => c.toUpperCase())
CapitalizeFirst(s) ==
  LET t == trim(s)
  IN  IF Len(t) > 0 /\ IsWordChar(t[1])
      THEN <<ToUpperChar(t[1])>> \o Tail(t) ELSE t

normalizeLocationName(text) ==
  LET loc == IndexGet(trim(toLowerCase(text)))
  IN  IF IsSome(loc) THEN Get(loc).name ELSE CapitalizeFirst(text)

\* regular expression test for any of a set of literal alternatives
TestAny(lower, words) == \E w \in words : includes(lower, w)

inferLocationType(text) ==
  LET lower == toLowerCase(text)
  IN  IF TestAny(lower, { <<1089, 1090, 46>>, <<1089, 1090, 1072, 1085, 1094, 1080>>, <<115, 116, 97, 116, 105, 111, 110>>, <<1078, 1076>>, <<1078, 47, 1076>> })
      THEN Some("STATION")
      ELSE IF TestAny(lower, { <<1087, 1086, 1088, 1090>>, <<112, 111, 114, 116>>, <<1075, 1072, 1074, 1072, 1085, 1100>>, <<1087, 1088, 1080, 1095, 1072, 1083>> })
      THEN Some("PORT")
      ELSE IF TestAny(lower, { <<1089, 1074, 1093>>, <<1089, 1082, 1083, 1072, 1076>>, <<119, 97, 114, 101, 104, 111, 117, 115, 101>>, <<1090, 1077, 1088, 1084, 1080, 1085, 1072, 1083>> })
      THEN Some("WAREHOUSE")
      ELSE IF TestAny(lower, { <<1090, 1072, 1084, 1086, 1078, 1085>>, <<99, 117, 115, 116, 111, 109, 115>> })
      THEN Some("CUSTOMS")
      ELSE IF TestAny(lower, { <<1075, 1086, 1088, 1086, 1076>>, <<99, 105, 116, 121>> })
      THEN Some("CITY")
      ELSE None

----------------------------------------------------------------------------
(* JSON values: the content of a RawInput *)

\* A string; json is the value JSON.parse returns for it, None when it throws.
JStr(chars) == [kind |-> "string", chars |-> chars, json |-> None]
JText(chars, value) == [kind |-> "string", chars |-> chars, json |-> Some(value)]
JArr(items) == [kind |-> "array", items |-> items]
\* fields: the own properties in insertion order, << <<key, value>>, ... >>
JObj(fields) == [kind |-> "object", fields |-> fields]
JNum(n) == [kind |-> "number", n |-> n]
JNull == [kind |-> "null"]
JUndefined == [kind |-> "undefined"]

\* obj[name]: the value of the last field with this key, or undefined
Field(obj, name) ==
  LET at == {i \in 1..Len(obj.fields) : obj.fields[i][1] = name}
  IN  IF at = {} THEN JUndefined
      ELSE obj.fields[CHOOSE i \in at : \A j \in at : j <= i][2]

\* Object.keys(obj)
Keys(obj) == [i \in 1..Len(obj.fields) |-> obj.fields[i][1]]

----------------------------------------------------------------------------
(* formatDetector *)

Threw(message) == [threw |-> TRUE, message |-> message]

\* createFormat reads the content as a string (content.toLowerCase()): it throws
\* when the content string is undefined.  The keyword flags of details are not
\* part of the model; estimatedRowCount is.
createFormat(type, confidence, contentDefined, rowCount) ==
  IF ~contentDefined THEN Threw("TypeError")
  ELSE [ threw |-> FALSE, type |-> type, confidence |-> confidence,
         estimatedRowCount |-> rowCount ]

unknownFormat ==
  [ threw |-> FALSE, type |-> "UNKNOWN", confidence |-> RZero, estimatedRowCount |-> 0 ]

tableFields ==
  << S(<<"c","o","n","t","a","i","n","e","r","N","u","m","b","e","r">>),
     S(<<"c","o","n","t","a","i","n","e","r","_","n","u","m","b","e","r">>),
     S(<<"c","o","n","t","a","i","n","e","r","n","u","m","b","e","r">>),
     S(<<"s","t","a","t","e">>),
     S(<<"s","t","a","t","u","s">>),
     S(<<"s","t","a","t","u","s","C","o","d","e">>),
     S(<<"s","t","a","t","u","s","_","c","o","d","e">>),
     S(<<"f","r","o","m">>),
     S(<<"t","o">>),
     S(<<"o","r","i","g","i","n">>),
     S(<<"d","e","s","t","i","n","a","t","i","o","n">>),
     S(<<"e","t","a">>),
     S(<<"E","T","A">>),
     S(<<"a","r","r","i","v","a","l">>),
     S(<<"a","r","r","i","v","a","l","D","a","t","e">>),
     S(<<"l","o","c","a","t","i","o","n">>),
     S(<<"c","u","r","r","e","n","t","L","o","c","a","t","i","o","n">>),
     S(<<"c","u","r","r","e","n","t","_","l","o","c","a","t","i","o","n">>) >>

\* Mutant: one table-like key is enough.
hasTableFields_OneKey(obj) ==
  LET keys == {toLowerCase(Keys(obj)[i]) : i \in 1..Len(obj.fields)}
      matches == {i \in 1..Len(tableFields) : toLowerCase(tableFields[i]) \in keys}
  IN  Cardinality(matches) >= 1

hasTableFields(obj) ==
  LET keys == {toLowerCase(Keys(obj)[i]) : i \in 1..Len(obj.fields)}
      matches == {i \in 1..Len(tableFields) : toLowerCase(tableFields[i]) \in keys}
  IN  Cardinality(matches) >= 2

detectArrayFormat(content) ==
  IF Len(content.items) = 0 THEN unknownFormat
  ELSE LET firstItem == content.items[1]
       IN  IF firstItem.kind \in {"object", "array"}
           THEN IF firstItem.kind = "object" /\ hasTableFields(firstItem)
                THEN createFormat("TABLE_ROWS", R(9, 10), TRUE, Len(content.items))
                ELSE createFormat("JSON_ARRAY", R(8, 10), TRUE, Len(content.items))
           ELSE IF firstItem.kind = "string"
           THEN createFormat("CSV_TEXT", R(6, 10), TRUE, Len(content.items))
           ELSE createFormat("JSON_ARRAY", R(5, 10), TRUE, Len(content.items))

detectObjectFormat(content) ==
  IF hasTableFields(content) THEN createFormat("TABLE_ROW", R(9, 10), TRUE, 1)
  ELSE IF Field(content, S(<<"r","o","w","s">>)).kind = "array"
  THEN detectArrayFormat(Field(content, S(<<"r","o","w","s">>)))
  ELSE IF Field(content, S(<<"d","a","t","a">>)).kind = "array"
  THEN detectArrayFormat(Field(content, S(<<"d","a","t","a">>)))
  ELSE IF Field(content, S(<<"b","o","d","y">>)).kind = "string"
  THEN createFormat("MIXED", R(8, 10), TRUE, 1)
  ELSE createFormat("JSON_OBJECT", R(7, 10), TRUE, 1)

\* content.split(newline).filter(l => l.trim()): the non-blank lines
\* s.split('\n'): the pieces between consecutive line feeds
SplitLines(s) ==
  LET breaks == {i \in 1..Len(s) : s[i] = 10}
      nth(k) == CHOOSE b \in breaks : Cardinality({c \in breaks : c <= b}) = k
      n == Cardinality(breaks)
  IN  [k \in 1..(n + 1) |->
         SubSeq(s, IF k = 1 THEN 1 ELSE nth(k - 1) + 1,
                   IF k = n + 1 THEN Len(s) ELSE nth(k) - 1)]

NonBlankLines(s) == SelectSeq(SplitLines(s), LAMBDA l : Len(trim(l)) > 0)

CountChar(line, c) == Cardinality({i \in 1..Len(line) : line[i] = c})

looksLikeCSV(content) ==
  LET lines == NonBlankLines(content)
  IN  /\ Len(lines) >= 2
      /\ \E delimiter \in {Ord(";"), Ord(","), 9} :
           /\ CountChar(lines[1], delimiter) >= 2
           /\ \A k \in 2..(IF Len(lines) < 5 THEN Len(lines) ELSE 5) :
                LET d == CountChar(lines[k], delimiter) - CountChar(lines[1], delimiter)
                IN  d <= 1 /\ d >= -1

detectStringFormat(content) ==
  LET trimmed == trim(content.chars)
      bracket == Len(trimmed) > 0 /\ trimmed[1] \in {Ord("{"), Ord("[")}
  IN  IF bracket /\ IsSome(content.json)
      THEN IF Get(content.json).kind = "array"
           THEN detectArrayFormat(Get(content.json))
           ELSE detectObjectFormat(Get(content.json))
      ELSE IF looksLikeCSV(trimmed) THEN createFormat("CSV_TEXT", R(8, 10), TRUE, 1)
      ELSE createFormat("PLAIN_TEXT", R(9, 10), TRUE, 1)

\* detect for an input without a hint
detectAuto(content) ==
  IF content.kind = "array" THEN detectArrayFormat(content)
  ELSE IF content.kind = "string" THEN detectStringFormat(content)
  ELSE IF content.kind = "object" THEN detectObjectFormat(content)
  ELSE unknownFormat

\* Mutant: a hint is given a confidence of 1.95.
HintConfidence_TooHigh == R(195, 100)

HintConfidence == R(95, 100)

detectWithHint(content, hint) ==
  LET \* typeof content === 'string' ? content : JSON.stringify(content)
      contentDefined == content.kind # "undefined"
      isArray == content.kind = "array"
      rows == IF isArray THEN Len(content.items) ELSE 1
  IN  IF hint = "text" THEN createFormat("PLAIN_TEXT", HintConfidence, contentDefined, 1)
      ELSE IF hint = "json"
      THEN createFormat(IF isArray THEN "JSON_ARRAY" ELSE "JSON_OBJECT",
                        HintConfidence, contentDefined, rows)
      ELSE IF hint = "csv" THEN createFormat("CSV_TEXT", HintConfidence, contentDefined, 1)
      ELSE IF hint = "table"
      THEN createFormat(IF isArray THEN "TABLE_ROWS" ELSE "TABLE_ROW",
                        HintConfidence, contentDefined, rows)
      ELSE detectAuto(content)

\* Mutant: the hint is consulted before the array test.
detect_HintFirst(input) ==
  IF IsSome(input.hint) THEN detectWithHint(input.content, Get(input.hint))
  ELSE detectAuto(input.content)

detect(input) ==
  IF input.content.kind = "array" THEN detectArrayFormat(input.content)
  ELSE IF IsSome(input.hint) THEN detectWithHint(input.content, Get(input.hint))
  ELSE detectAuto(input.content)

----------------------------------------------------------------------------
(* dataValidator: validation and normalisation of a ParsedItem *)

\* a number held where the interface declares a string (the rows of a JSON
\* input are not type-checked): a sequence that no string equals
NumberValue(n) == <<-1, n>>
IsString(v) == Len(v) = 0 \/ v[1] >= 0

\* the truthiness of an optional string: defined and not empty
Truthy(o) == IsSome(o) /\ Len(Get(o)) > 0

\* allowed location types of a status; None when the table has no entry
STATUS_LOCATION_RULES(statusCode) ==
  CASE statusCode \in {"ON_RAIL", "RAIL_ARRIVED"} -> Some({"STATION"})
    [] statusCode \in {"IN_PORT", "ARRIVED_PORT", "ON_ANCHORAGE"} -> Some({"PORT"})
    [] statusCode = "ON_SHIP" -> Some({})
    [] statusCode \in {"ON_WAREHOUSE", "CUSTOMS", "CUSTOMS_CLEARED"} -> Some({"WAREHOUSE", "CUSTOMS"})
    [] statusCode = "DELIVERED" -> Some({"CITY", "WAREHOUSE"})
    [] OTHER -> None

\* the keys of validStatuses with the code each maps to
validStatuses ==
  << <<S(<<"L","O","A","D","E","D">>), "LOADED">>,
     <<S(<<"I","N","P","O","R","T">>), "IN_PORT">>,
     <<S(<<"I","N","_","P","O","R","T">>), "IN_PORT">>,
     <<S(<<"P","O","R","T">>), "IN_PORT">>,
     <<S(<<"O","N","S","H","I","P">>), "ON_SHIP">>,
     <<S(<<"O","N","_","S","H","I","P">>), "ON_SHIP">>,
     <<S(<<"S","H","I","P">>), "ON_SHIP">>,
     <<S(<<"O","N","R","A","I","L">>), "ON_RAIL">>,
     <<S(<<"O","N","_","R","A","I","L">>), "ON_RAIL">>,
     <<S(<<"R","A","I","L">>), "ON_RAIL">>,
     <<S(<<"O","N","W","A","R","E","H","O","U","S","E">>), "ON_WAREHOUSE">>,
     <<S(<<"O","N","_","W","A","R","E","H","O","U","S","E">>), "ON_WAREHOUSE">>,
     <<S(<<"W","A","R","E","H","O","U","S","E">>), "ON_WAREHOUSE">>,
     <<S(<<"D","E","L","I","V","E","R","E","D">>), "DELIVERED">>,
     <<S(<<"U","N","K","N","O","W","N">>), "UNKNOWN">>,
     <<S(<<"I","N","T","R","A","N","S","I","T">>), "IN_TRANSIT">>,
     <<S(<<"I","N","_","T","R","A","N","S","I","T">>), "IN_TRANSIT">>,
     <<S(<<"T","R","A","N","S","I","T">>), "IN_TRANSIT">>,
     <<S(<<"C","U","S","T","O","M","S">>), "CUSTOMS">>,
     <<S(<<"O","N","A","N","C","H","O","R","A","G","E">>), "ON_ANCHORAGE">>,
     <<S(<<"O","N","_","A","N","C","H","O","R","A","G","E">>), "ON_ANCHORAGE">>,
     <<S(<<"A","N","C","H","O","R","A","G","E">>), "ON_ANCHORAGE">>,
     <<S(<<"A","R","R","I","V","E","D","P","O","R","T">>), "ARRIVED_PORT">>,
     <<S(<<"A","R","R","I","V","E","D","_","P","O","R","T">>), "ARRIVED_PORT">>,
     <<S(<<"R","A","I","L","A","R","R","I","V","E","D">>), "RAIL_ARRIVED">>,
     <<S(<<"R","A","I","L","_","A","R","R","I","V","E","D">>), "RAIL_ARRIVED">>,
     <<S(<<"C","U","S","T","O","M","S","C","L","E","A","R","E","D">>), "CUSTOMS_CLEARED">>,
     <<S(<<"C","U","S","T","O","M","S","_","C","L","E","A","R","E","D">>), "CUSTOMS_CLEARED">>,
     <<S(<<"U","N","L","O","A","D","E","D">>), "UNLOADED">>,
     <<S(<<"O","N","A","U","T","O">>), "ON_AUTO">>,
     <<S(<<"O","N","_","A","U","T","O">>), "ON_AUTO">>,
     <<S(<<"A","U","T","O">>), "ON_AUTO">> >>

\* the codes of the StatusCode type, as enumerated by getStatusText
StatusVocabulary ==
  { "LOADED", "IN_PORT", "ON_SHIP", "ON_RAIL", "ON_WAREHOUSE", "DELIVERED", "UNKNOWN",
    "IN_TRANSIT", "CUSTOMS", "ON_ANCHORAGE", "ARRIVED_PORT", "RAIL_ARRIVED",
    "CUSTOMS_CLEARED", "UNLOADED", "ON_AUTO" }

\* value.toUpperCase().replace(/[_\s\-]/g, '')
StatusKey(value) ==
  SelectSeq(toUpperCase(value), LAMBDA c : ~(c = 95 \/ c = 45 \/ IsSpace(c)))

\* Mutant: a token that is not in the table is given a code of its own
\* instead of UNKNOWN.
validateAndMapStatus_OwnCode(value) ==
  IF ~Truthy(value) THEN "UNKNOWN"
  ELSE LET upper == StatusKey(Get(value))
           hits == {i \in 1..Len(validStatuses) : validStatuses[i][1] = upper}
       IN  IF hits = {} THEN "RAW_TOKEN"
           ELSE validStatuses[CHOOSE i \in hits : TRUE][2]

validateAndMapStatus(value) ==
  IF ~Truthy(value) THEN "UNKNOWN"
  ELSE LET upper == StatusKey(Get(value))
           hits == {i \in 1..Len(validStatuses) : validStatuses[i][1] = upper}
       IN  IF hits = {} THEN "UNKNOWN"
           ELSE validStatuses[CHOOSE i \in hits : TRUE][2]

\* an instant in time: <<year, month, day, second of the day>>
InstantLt(a, b) ==
  \E i \in 1..4 : a[i] < b[i] /\ \A j \in 1..(i - 1) : a[j] = b[j]

IsLeapYear(y) == (y % 4 = 0 /\ y % 100 # 0) \/ y % 400 = 0

DaysInMonth(y, m) ==
  IF m = 2 THEN (IF IsLeapYear(y) THEN 29 ELSE 28)
  ELSE IF m \in {4, 6, 9, 11} THEN 30 ELSE 31

\* new Date(year, month - 1, day) for 1 <= month <= 12 and 1 <= day <= 31: a
\* day past the end of the month rolls over into the next month
NewDate(year, month, day) ==
  IF day <= DaysInMonth(year, month) THEN <<year, month, day, 0>>
  ELSE <<year, month + 1, day - DaysInMonth(year, month), 0>>

AllDigits(s) == \A i \in 1..Len(s) : IsDigit(s[i])

\* parseInt of a string of at most four digits
ParseInt(s) ==
  LET n == Len(s)
      d(i) == IF i <= n THEN s[i] - 48 ELSE 0
  IN  CASE n = 1 -> d(1)
        [] n = 2 -> 10 * d(1) + d(2)
        [] n = 3 -> 100 * d(1) + 10 * d(2) + d(3)
        [] OTHER -> 1000 * d(1) + 100 * d(2) + 10 * d(3) + d(4)

\* the three pieces of a text of digits with exactly two separators [.\/-],
\* or None: the common frame of the three date formats
DateFields(value) ==
  LET seps == {i \in 1..Len(value) : value[i] \in {46, 47, 45}}
  IN  IF Cardinality(seps) # 2 THEN None
      ELSE LET i1 == CHOOSE i \in seps : \A j \in seps : i <= j
               i2 == CHOOSE i \in seps : \A j \in seps : j <= i
               a == SubSeq(value, 1, i1 - 1)
               b == SubSeq(value, i1 + 1, i2 - 1)
               c == SubSeq(value, i2 + 1, Len(value))
           IN  IF AllDigits(a) /\ AllDigits(b) /\ AllDigits(c)
               THEN Some(<<a, b, c>>) ELSE None

\* new Date(value) for the date-time form YYYY-MM-DDTHH:MM:SS[.sss]Z that
\* toISOString writes; any other text of the input sets is not a date
NativeDate(value) ==
  LET n == Len(value)
      num(a, b) == ParseInt(SubSeq(value, a, b))
      shape == /\ n \in {20, 24}
               /\ value[n] = 90
               /\ value[5] = 45 /\ value[8] = 45 /\ value[11] = 84
               /\ value[14] = 58 /\ value[17] = 58
               /\ AllDigits(SubSeq(value, 1, 4)) /\ AllDigits(SubSeq(value, 6, 7))
               /\ AllDigits(SubSeq(value, 9, 10)) /\ AllDigits(SubSeq(value, 12, 13))
               /\ AllDigits(SubSeq(value, 15, 16)) /\ AllDigits(SubSeq(value, 18, 19))
               /\ (n = 24 => value[20] = 46 /\ AllDigits(SubSeq(value, 21, 23)))
  IN  IF ~shape THEN None
      ELSE IF /\ num(6, 7) \in 1..12
              /\ num(9, 10) \in 1..DaysInMonth(num(1, 4), num(6, 7))
              /\ num(12, 13) < 24 /\ num(15, 16) < 60 /\ num(18, 19) < 60
      THEN Some(<<num(1, 4), num(6, 7), num(9, 10),
                  3600 * num(12, 13) + 60 * num(15, 16) + num(18, 19)>>)
      ELSE None

\* Mutant: the ranges of day, month and year are not checked.
DateInRange_Unchecked(year, month, day) == month \in 1..12 /\ day \in 1..31

DateInRange(year, month, day) ==
  /\ ~(month < 1 \/ month > 12)
  /\ ~(day < 1 \/ day > 31)
  /\ ~(year < 2020 \/ year > 2030)

\* the instant of a date text, or None (null) when it is not a date; the
\* process runs in UTC
validateDate(value) ==
  IF ~Truthy(value) THEN None
  ELSE
    LET f == DateFields(Get(value))
        a == Get(f)[1]
        b == Get(f)[2]
        c == Get(f)[3]
        short(s) == Len(s) \in {1, 2}
        dmy4 == IsSome(f) /\ short(a) /\ short(b) /\ Len(c) = 4
        dmy2 == IsSome(f) /\ short(a) /\ short(b) /\ Len(c) = 2
        ymd == IsSome(f) /\ Len(a) = 4 /\ short(b) /\ short(c)
        year == IF ymd THEN ParseInt(a)
                ELSE IF ParseInt(c) < 100 THEN ParseInt(c) + 2000 ELSE ParseInt(c)
        month == ParseInt(b)
        day == IF ymd THEN ParseInt(c) ELSE ParseInt(a)
    IN  IF dmy4 \/ dmy2 \/ ymd
        THEN IF DateInRange(year, month, day) THEN Some(NewDate(year, month, day))
             ELSE None
        ELSE NativeDate(Get(value))

\* Math.round of a rational number
MathRound(x) == (2 * x[1] + x[2]) \div (2 * x[2])

validateDistance(value) ==
  IF ~IsSome(value) THEN None
  ELSE IF RLt(Get(value), RZero) THEN None
  ELSE IF RLt(R(20000, 1), Get(value)) THEN None
  ELSE Some(MathRound(Get(value)))

\* Mutant: errors do not make the item invalid.
IsValidRule_IgnoreErrors(errors, containerNumber, confidence) ==
  Truthy(containerNumber) /\ RLe(R(5, 10), confidence)

IsValidRule(errors, containerNumber, confidence) ==
  Len(errors) = 0 /\ Truthy(containerNumber) /\ RLe(R(5, 10), confidence)

\* Mutant: a location alone is not enough for partial data.
HasMinimalData_NoLocation(containerNumber, statusCode, location) ==
  Truthy(containerNumber) \/ statusCode # "UNKNOWN"

HasMinimalData(containerNumber, statusCode, location) ==
  Truthy(containerNumber) \/ statusCode # "UNKNOWN" \/ Truthy(location)

\* Mutant: the blend of the sub-scores is not weighted.
BlendConfidence_Unweighted(statusConfidence, locationConfidence, dataCompleteness) ==
  RAdd(RAdd(statusConfidence, locationConfidence), dataCompleteness)

\* the confidence of an item whose container number did not validate
BlendConfidence(statusConfidence, locationConfidence, dataCompleteness) ==
  RAdd(RAdd(RMul(statusConfidence, R(3, 10)), RMul(locationConfidence, R(3, 10))),
       RMul(dataCompleteness, R(4, 10)))

\* 1. container number: the outcome of the check, given the result of
\* validateContainerNumber (None when the item carries no number)
ContainerOutcome(given, containerValidation) ==
  LET ok == IsSome(containerValidation) /\ Get(containerValidation).isValid
  IN  [ validation |-> containerValidation,
        ok |-> ok,
        containerNumber |->
          IF ok THEN Some(Get(containerValidation).containerNumber) ELSE given,
        errors |->
          IF ~IsSome(containerValidation) THEN << <<"containerRequired">> >>
          ELSE IF ~ok
          THEN << <<"container", IF IsSome(Get(containerValidation).error)
                                 THEN Get(Get(containerValidation).error)
                                 ELSE "Invalid container number">> >>
          ELSE <<>>,
        warnings |->
          IF ~ok THEN <<>>
          ELSE (IF IsSome(Get(containerValidation).corrections)
                THEN Get(Get(containerValidation).corrections) ELSE <<>>)
               \o (IF ~Get(containerValidation).details.checkDigitValid
                   THEN << <<"checkDigitNotIso6346">> >> ELSE <<>>) ]

CheckContainer(item) ==
  ContainerOutcome(item.containerNumber,
                   IF Truthy(item.containerNumber)
                   THEN Some(validateContainerNumber(Get(item.containerNumber)))
                   ELSE None)

\* 2. location: the outcome, given the results of findLocation,
\* inferLocationType and normalizeLocationName for the text of the item
LocationOutcome(item, locationResult, inferredType, normalizedName) ==
  LET hasLocation == Truthy(item.location)
      resolved == hasLocation /\ locationResult.found /\ IsSome(locationResult.location)
  IN  [ location |->
          IF ~hasLocation THEN None
          ELSE IF resolved THEN Some(Get(locationResult.location).name)
          ELSE Some(normalizedName),
        confidence |->
          IF ~hasLocation THEN RZero
          ELSE IF resolved THEN locationResult.confidence
          ELSE IF IsSome(inferredType) THEN RAdd(R(5, 10), R(2, 10))
          ELSE R(5, 10),
        locationType |->
          IF resolved THEN Some(Get(locationResult.location).type)
          ELSE IF hasLocation /\ IsSome(inferredType) THEN inferredType
          ELSE item.locationType,
        warnings |->
          IF hasLocation /\ ~resolved
          THEN << <<"locationNotInDictionary", Get(item.location)>> >> ELSE <<>> ]

LocationText(item) == IF Truthy(item.location) THEN Get(item.location) ELSE <<>>

CheckLocation(item) ==
  LocationOutcome(item, findLocation(LocationText(item)),
                  inferLocationType(LocationText(item)),
                  normalizeLocationName(LocationText(item)))

\* 3. status: the outcome, given the code validateAndMapStatus returns
StatusOutcome(given, statusCode) ==
  LET unknownToken ==
        statusCode = "UNKNOWN" /\ Truthy(given)
        /\ Get(given) # S(<<"U","N","K","N","O","W","N">>)
  IN  [ statusCode |-> statusCode,
        confidence |->
          IF statusCode # "UNKNOWN" THEN R(95, 100)
          ELSE IF unknownToken THEN R(3, 10) ELSE R(1, 10),
        warnings |->
          IF unknownToken THEN << <<"unknownStatus", Get(given)>> >> ELSE <<>> ]

CheckStatus(item) == StatusOutcome(item.statusCode, validateAndMapStatus(item.statusCode))

\* 4. consistency of status, location type and distance
CheckConsistency(item, statusCode, locationType) ==
  LET allowedLocationTypes == STATUS_LOCATION_RULES(statusCode)
      mismatch ==
        /\ statusCode # "UNKNOWN" /\ IsSome(locationType)
        /\ IsSome(allowedLocationTypes) /\ Get(allowedLocationTypes) # {}
        /\ Get(locationType) \notin Get(allowedLocationTypes)
      hasDistance == IsSome(item.distanceToDestination)
      negative == hasDistance /\ RLt(Get(item.distanceToDestination), RZero)
      tooFar == hasDistance /\ ~negative
                /\ RLt(R(15000, 1), Get(item.distanceToDestination))
      deliveredFar ==
        /\ hasDistance /\ statusCode = "DELIVERED" /\ ~negative
        /\ RLt(RZero, Get(item.distanceToDestination))
  IN  [ distanceToDestination |->
          IF negative THEN None ELSE item.distanceToDestination,
        errors |-> IF negative THEN << <<"negativeDistance">> >> ELSE <<>>,
        warnings |->
          (IF mismatch
           THEN << <<"locationTypeMismatch", Get(locationType), statusCode>> >>
           ELSE <<>>)
          \o (IF tooFar THEN << <<"unusuallyLargeDistance">> >> ELSE <<>>)
          \o (IF deliveredFar THEN << <<"deliveredButDistance">> >> ELSE <<>>),
        score |->
          RMul(RMul(RMul(ROne, IF mismatch THEN R(8, 10) ELSE ROne),
                    IF tooFar THEN R(9, 10) ELSE ROne),
               IF deliveredFar THEN R(9, 10) ELSE ROne) ]

\* 5. dates: the outcome, given the parsed ETA
CheckDates(item, statusCode, eta, now) ==
  LET badEta == Truthy(item.eta) /\ ~IsSome(eta)
      etaPast == IsSome(eta) /\ statusCode # "DELIVERED" /\ InstantLt(Get(eta), now)
  IN  [ warnings |->
          (IF badEta THEN << <<"invalidEta", Get(item.eta)>> >> ELSE <<>>)
          \o (IF etaPast THEN << <<"etaInPast">> >> ELSE <<>>),
        factor |-> IF etaPast THEN R(9, 10) ELSE ROne ]

\* 6. completeness: the share of the six fields that are filled
DataCompleteness(item, containerNumber, statusCode, location, eta, distance) ==
  R((IF Truthy(containerNumber) THEN 1 ELSE 0)
    + (IF statusCode # "UNKNOWN" THEN 1 ELSE 0)
    + (IF Truthy(location) THEN 1 ELSE 0)
    + (IF IsSome(eta) THEN 1 ELSE 0)
    + (IF IsSome(distance) THEN 1 ELSE 0)
    + (IF Truthy(item.origin) \/ Truthy(item.destination) THEN 1 ELSE 0), 6)

\* Mutant: the bonuses of a validated container are added without the cap.
BoostConfidence_NoCap(containerConfidence, statusConfidence, locationConfidence, dataCompleteness, consistencyScore) ==
  RAdd(RAdd(RAdd(RAdd(containerConfidence,
                      IF RLt(R(9, 10), statusConfidence) THEN R(5, 100) ELSE RZero),
                 IF RLt(R(9, 10), locationConfidence) THEN R(5, 100) ELSE RZero),
            IF RLt(R(5, 10), dataCompleteness) THEN R(3, 100) ELSE RZero),
       IF RLe(ROne, consistencyScore) THEN R(2, 100) ELSE RZero)

\* 7. the confidence of an item whose container number validated
BoostConfidence(containerConfidence, statusConfidence, locationConfidence, dataCompleteness, consistencyScore) ==
  RMin(RAdd(RAdd(RAdd(RAdd(containerConfidence,
                           IF RLt(R(9, 10), statusConfidence)
                           THEN R(5, 100) ELSE RZero),
                      IF RLt(R(9, 10), locationConfidence)
                      THEN R(5, 100) ELSE RZero),
                 IF RLt(R(5, 10), dataCompleteness)
                 THEN R(3, 100) ELSE RZero),
            IF RLe(ROne, consistencyScore) THEN R(2, 100) ELSE RZero),
       ROne)

\* Mutant: the penalty for warnings is applied from three warnings on.
Penalise_FromThree(base, errors, warnings) ==
  RMul(IF Len(errors) > 0 THEN RMul(base, R(5, 10)) ELSE base,
       IF Len(warnings) >= 3 THEN R(95, 100) ELSE ROne)

\* the penalties for errors and for more than three warnings
Penalise(base, errors, warnings) ==
  RMul(IF Len(errors) > 0 THEN RMul(base, R(5, 10)) ELSE base,
       IF Len(warnings) > 3 THEN R(95, 100) ELSE ROne)

\* the outcomes of steps 1, 2, 3 and the two parsed dates
ValidateFields(item) ==
  [ container |-> CheckContainer(item),
    location |-> CheckLocation(item),
    status |-> CheckStatus(item),
    eta |-> validateDate(item.eta),
    eventTime |-> validateDate(item.eventTime) ]

\* the outcomes of steps 4 and 5
ValidateChecks(item, now, f) ==
  [ consistency |-> CheckConsistency(item, f.status.statusCode, f.location.locationType),
    dates |-> CheckDates(item, f.status.statusCode, f.eta, now) ]

\* the findings and the sub-scores
ValidateScores(item, f, k) ==
  [ errors |-> f.container.errors \o k.consistency.errors,
    warnings |-> f.container.warnings \o f.location.warnings \o f.status.warnings
                 \o k.consistency.warnings \o k.dates.warnings,
    consistencyScore |-> RMul(k.consistency.score, k.dates.factor),
    dataCompleteness |->
      DataCompleteness(item, f.container.containerNumber, f.status.statusCode,
                       f.location.location, f.eta,
                       k.consistency.distanceToDestination) ]

ValidateConfidence(f, sc) ==
  Penalise(IF f.container.ok
           THEN BoostConfidence(Get(f.container.validation).confidence,
                                f.status.confidence, f.location.confidence,
                                sc.dataCompleteness, sc.consistencyScore)
           ELSE BlendConfidence(f.status.confidence, f.location.confidence,
                                sc.dataCompleteness),
           sc.errors, sc.warnings)

\* 8. the normalized record
NormalizedRecord(now, f, k) ==
  [ containerNumber |-> f.container.containerNumber,
    statusCode |-> f.status.statusCode,
    location |-> f.location.location,
    distanceToDestinationKm |-> validateDistance(k.consistency.distanceToDestination),
    eta |-> f.eta,
    eventTime |-> IF IsSome(f.eventTime) THEN Get(f.eventTime) ELSE now,
    sourceType |-> "MANUAL" ]

ValidationResult(item, f, k, sc, confidence, normalized, isValid) ==
  [ isValid |-> isValid,
    normalized |-> IF isValid THEN Some(normalized) ELSE None,
    partialData |->
      IF ~isValid /\ HasMinimalData(normalized.containerNumber,
                                    normalized.statusCode, normalized.location)
      THEN Some(normalized) ELSE None,
    errors |-> sc.errors,
    warnings |-> sc.warnings,
    confidence |-> RoundHundredths(confidence),
    threw |-> FALSE,
    validationDetails |->
      [ containerValidation |-> f.container.validation,
        locationConfidence |-> f.location.confidence,
        statusConfidence |-> f.status.confidence,
        dataCompleteness |-> sc.dataCompleteness,
        consistencyScore |-> sc.consistencyScore ],
    item |-> [item EXCEPT !.containerNumber = f.container.containerNumber,
                          !.locationType = f.location.locationType,
                          !.distanceToDestination =
                             k.consistency.distanceToDestination] ]

ValidateRated(item, f, k, sc, confidence, normalized) ==
  ValidationResult(item, f, k, sc, confidence, normalized,
                   IsValidRule(sc.errors, normalized.containerNumber, confidence))

ValidateScored(item, now, f, k, sc) ==
  ValidateRated(item, f, k, sc, ValidateConfidence(f, sc), NormalizedRecord(now, f, k))

ValidateChecked(item, now, f, k) ==
  ValidateScored(item, now, f, k, ValidateScores(item, f, k))

ValidateStepped(item, now, f) ==
  ValidateChecked(item, now, f, ValidateChecks(item, now, f))

\* validateContainerNumber(item.containerNumber) and findLocation(item.location)
\* call toUpperCase / toLowerCase on their argument: a truthy value that is
\* not a string makes validate throw a TypeError
ValidateThrows(item) ==
  \/ (Truthy(item.containerNumber) /\ ~IsString(Get(item.containerNumber)))
  \/ (Truthy(item.location) /\ ~IsString(Get(item.location)))

\* validate(item) at the instant now; the field item of the result is the
\* ParsedItem as the call leaves it
validate(item, now) ==
  IF ValidateThrows(item) THEN Threw("TypeError")
  ELSE ValidateStepped(item, now, ValidateFields(item))

----------------------------------------------------------------------------
(* universalParser: the confidence of an extraction *)

UnknownStatus == Some(S(<<"U","N","K","N","O","W","N">>))

\* Mutant: the confidence of a text extraction is not capped at 1.
TextExtractionConfidence_NoCap(item) ==
  RAdd(RAdd(RAdd(RAdd(RAdd(RAdd(RAdd(R(5, 10),
    IF Truthy(item.location) THEN R(1, 10) ELSE RZero),
    IF IsSome(item.distanceToDestination) THEN R(1, 10) ELSE RZero),
    IF Truthy(item.eta) THEN R(1, 10) ELSE RZero),
    IF item.statusCode # UnknownStatus THEN R(15, 100) ELSE RZero),
    IF Truthy(item.origin) THEN R(5, 100) ELSE RZero),
    IF Truthy(item.destination) THEN R(5, 100) ELSE RZero),
    IF Truthy(item.containerNumber) THEN R(5, 100) ELSE RZero)

\* extractDataFromText: the confidence of the fields taken from free text
TextExtractionConfidence(item) ==
  RMin(RAdd(RAdd(RAdd(RAdd(RAdd(RAdd(RAdd(R(5, 10),
    IF Truthy(item.location) THEN R(1, 10) ELSE RZero),
    IF IsSome(item.distanceToDestination) THEN R(1, 10) ELSE RZero),
    IF Truthy(item.eta) THEN R(1, 10) ELSE RZero),
    IF item.statusCode # UnknownStatus THEN R(15, 100) ELSE RZero),
    IF Truthy(item.origin) THEN R(5, 100) ELSE RZero),
    IF Truthy(item.destination) THEN R(5, 100) ELSE RZero),
    IF Truthy(item.containerNumber) THEN R(5, 100) ELSE RZero), ROne)

\* mapTableRow: the confidence of the fields taken from a table row
RowExtractionConfidence(item) ==
  RMin(RAdd(RAdd(RAdd(RAdd(RAdd(R(3, 10),
    IF Truthy(item.containerNumber) THEN R(3, 10) ELSE RZero),
    IF item.statusCode # UnknownStatus THEN R(2, 10) ELSE RZero),
    IF Truthy(item.location) THEN R(1, 10) ELSE RZero),
    IF Truthy(item.eta) THEN R(5, 100) ELSE RZero),
    IF IsSome(item.distanceToDestination) THEN R(5, 100) ELSE RZero), ROne)

\* mapCSVRowWithoutHeaders
CsvExtractionConfidence(item) ==
  IF Truthy(item.containerNumber) THEN R(6, 10) ELSE R(3, 10)

\* ParsedItem.extractionConfidence of an item built by one of the three
\* constructors of ParsedItem
extractionConfidence(kind, item) ==
  CASE kind = "text" -> TextExtractionConfidence(item)
    [] kind = "row" -> RowExtractionConfidence(item)
    [] kind = "csv" -> CsvExtractionConfidence(item)

----------------------------------------------------------------------------
(* universalParser: free text *)

RECURSIVE Flatten(_)
\* concatenation of a sequence of sequences
Flatten(ss) == IF Len(ss) = 0 THEN <<>> ELSE ss[1] \o Flatten(Tail(ss))

HasThrown(result) == result.threw

\* the fields of a ParsedItem that the validator reads
ParsedItem(c, s, l, t, d, e, o) ==
  [ containerNumber |-> c, statusCode |-> s, location |-> l, locationType |-> t,
    distanceToDestination |-> d, eta |-> e, eventTime |-> None,
    origin |-> o, destination |-> None ]

\* the class [А-Яа-яёЁA-Za-z]
IsLetter(c) ==
  IsUpperAZ(c) \/ IsLowerAZ(c) \/ IsCyrUpper(c) \/ IsCyrLower(c) \/ c = 1105 \/ c = 1025

\* the ordered table of extractStatus
statusMap ==
  << [keywords |-> <<<<1076, 1086, 1089, 1090, 1072, 1074, 1083, 1077, 1085>>, S(<<"d","e","l","i","v","e","r","e","d">>), <<1074, 1099, 1076, 1072, 1085>>, <<1087, 1086, 1083, 1091, 1095, 1077, 1085>>, <<1074, 1088, 1091, 1095, 1077, 1085>>>>,
       code |-> S(<<"D","E","L","I","V","E","R","E","D">>)],
     [keywords |-> <<<<1087, 1088, 1080, 1073, 1099, 1083, 32, 1074, 32, 1087, 1086, 1088, 1090>>, S(<<"a","r","r","i","v","e","d"," ","p","o","r","t">>), <<1087, 1086, 1088, 1090, 32, 1085, 1072, 1079, 1085, 1072, 1095, 1077, 1085, 1080, 1103>>, <<1087, 1088, 1080, 1073, 1099, 1090, 1080, 1077, 32, 1074, 32, 1087, 1086, 1088, 1090>>>>,
       code |-> S(<<"A","R","R","I","V","E","D","_","P","O","R","T">>)],
     [keywords |-> <<<<1074, 32, 1087, 1086, 1088, 1090, 1091>>, S(<<"i","n"," ","p","o","r","t">>), <<1087, 1086, 1088, 1090, 32, 1074, 1083, 1072, 1076, 1080, 1074, 1086, 1089, 1090, 1086, 1082>>, <<1087, 1086, 1088, 1090, 32, 1074, 1086, 1089, 1090, 1086, 1095, 1085, 1099, 1081>>, <<1087, 1086, 1088, 1090, 32, 1085, 1072, 1093, 1086, 1076, 1082, 1072>>>>,
       code |-> S(<<"I","N","_","P","O","R","T">>)],
     [keywords |-> <<<<1085, 1072, 32, 1088, 1077, 1081, 1076, 1077>>, <<1088, 1077, 1081, 1076>>, S(<<"a","n","c","h","o","r","a","g","e">>), <<1086, 1078, 1080, 1076, 1072, 1077, 1090, 32, 1079, 1072, 1093, 1086, 1076, 1072>>>>,
       code |-> S(<<"O","N","_","A","N","C","H","O","R","A","G","E">>)],
     [keywords |-> <<<<1087, 1088, 1080, 1073, 1099, 1083, 32, 1085, 1072, 32, 1089, 1090, 1072, 1085, 1094>>, <<1087, 1088, 1080, 1073, 1099, 1083, 32, 1085, 1072, 32, 1089, 1090>>, S(<<"r","a","i","l"," ","a","r","r","i","v","e","d">>), <<1085, 1072, 32, 1089, 1090, 1072, 1085, 1094, 1080, 1080, 32, 1085, 1072, 1079, 1085, 1072, 1095, 1077, 1085, 1080, 1103>>>>,
       code |-> S(<<"R","A","I","L","_","A","R","R","I","V","E","D">>)],
     [keywords |-> <<<<1085, 1072, 32, 1089, 1090, 1072, 1085, 1094, 1080, 1080>>, <<1089, 1090, 46>>, <<1089, 1090, 1072, 1085, 1094, 1080>>>>,
       code |-> S(<<"O","N","_","R","A","I","L">>)],
     [keywords |-> <<<<1086, 1090, 1075, 1088, 1091, 1078, 1077, 1085, 32, 1085, 1072, 32, 1078, 1076>>, S(<<"o","n"," ","r","a","i","l">>), <<1078, 1077, 1083, 1077, 1079, 1085>>, <<1078, 47, 1076>>, <<1074, 32, 1087, 1091, 1090, 1080, 32, 1078, 1076>>, <<1087, 1086, 32, 1078, 1076>>, <<1077, 1076, 1077, 1090, 32, 1087, 1086, 32, 1078, 1076>>>>,
       code |-> S(<<"O","N","_","R","A","I","L">>)],
     [keywords |-> <<<<1074, 32, 1087, 1091, 1090, 1080, 32, 1084, 1086, 1088, 1077>>, S(<<"o","n"," ","s","h","i","p">>), <<1085, 1072, 32, 1089, 1091, 1076, 1085, 1077>>, <<1074, 32, 1084, 1086, 1088, 1077>>, <<1084, 1086, 1088, 1077, 1084>>, <<1080, 1076, 1105, 1090, 32, 1084, 1086, 1088, 1077, 1084>>, <<1087, 1083, 1099, 1074, 1105, 1090>>>>,
       code |-> S(<<"O","N","_","S","H","I","P">>)],
     [keywords |-> <<<<1085, 1072, 32, 1089, 1082, 1083, 1072, 1076, 1077>>, S(<<"w","a","r","e","h","o","u","s","e">>), <<1089, 1074, 1093>>, <<1088, 1072, 1079, 1084, 1077, 1097>>, <<1085, 1072, 32, 1089, 1074, 1093>>, <<1089, 1082, 1083, 1072, 1076>>>>,
       code |-> S(<<"O","N","_","W","A","R","E","H","O","U","S","E">>)],
     [keywords |-> <<<<1087, 1086, 1075, 1088, 1091, 1078, 1077, 1085>>, <<1079, 1072, 1075, 1088, 1091, 1078, 1077, 1085>>, S(<<"l","o","a","d","e","d">>), <<1086, 1090, 1075, 1088, 1091, 1078, 1077, 1085>>, <<1079, 1072, 1090, 1072, 1088, 1077, 1085>>>>,
       code |-> S(<<"L","O","A","D","E","D">>)],
     [keywords |-> <<<<1088, 1072, 1089, 1090, 1072, 1084, 1086, 1078, 1077, 1085>>, S(<<"c","u","s","t","o","m","s"," ","c","l","e","a","r","e","d">>), <<1074, 1099, 1087, 1091, 1097, 1077, 1085, 32, 1090, 1072, 1084, 1086, 1078, 1085, 1077, 1081>>>>,
       code |-> S(<<"C","U","S","T","O","M","S","_","C","L","E","A","R","E","D">>)],
     [keywords |-> <<<<1090, 1072, 1084, 1086, 1078, 1085>>, S(<<"c","u","s","t","o","m","s">>)>>,
       code |-> S(<<"C","U","S","T","O","M","S">>)],
     [keywords |-> <<<<1074, 1099, 1075, 1088, 1091, 1078, 1077, 1085>>, S(<<"u","n","l","o","a","d","e","d">>)>>,
       code |-> S(<<"U","N","L","O","A","D","E","D">>)],
     [keywords |-> <<<<1074, 32, 1087, 1091, 1090, 1080>>, S(<<"t","r","a","n","s","i","t">>), <<1089, 1083, 1077, 1076, 1091, 1077, 1090>>>>,
       code |-> S(<<"I","N","_","T","R","A","N","S","I","T">>)],
     [keywords |-> <<<<1072, 1074, 1090, 1086>>, <<1072, 1074, 1090, 1086, 1084, 1086, 1073, 1080, 1083>>, <<1092, 1091, 1088, 1072>>, <<1084, 1072, 1096, 1080, 1085, 1072>>>>,
       code |-> S(<<"O","N","_","A","U","T","O">>)],
     [keywords |-> <<<<1086, 1078, 1080, 1076, 1072>>, <<1087, 1086, 1075, 1088, 1091, 1079, 1082>>>>,
       code |-> S(<<"L","O","A","D","E","D">>)] >>

\* the entries that have a keyword contained in the lower-cased text
StatusHits(table, lowerText) ==
  {i \in 1..Len(table) :
     \E k \in 1..Len(table[i].keywords) : includes(lowerText, table[i].keywords[k])}

\* the first entry that matches decides
FirstStatus(table, hits) ==
  IF hits = {} THEN Get(UnknownStatus)
  ELSE table[CHOOSE i \in hits : \A j \in hits : i <= j].code

\* extractStatus(text).statusCode
extractStatus(text) == FirstStatus(statusMap, StatusHits(statusMap, toLowerCase(text)))

\* the elements of a finite set of numbers in increasing order
Ascending(P) ==
  [k \in 1..Cardinality(P) |-> CHOOSE i \in P : Cardinality({j \in P : j < i}) = k - 1]

\* the sequence without the repetitions of an element (a Set keeps the order
\* of first insertion)
Distinct(seq) ==
  LET keep == {i \in 1..Len(seq) : \A j \in 1..(i - 1) : seq[j] # seq[i]}
  IN  [k \in 1..Cardinality(keep) |-> seq[Ascending(keep)[k]]]

IsLatin(c) == IsUpperAZ(c) \/ IsLowerAZ(c)
IsAlnum(c) == IsLatin(c) \/ IsDigit(c)

\* the end (exclusive) of the longest run of characters of a class from i
DigitRunEnd(s, i) ==
  CHOOSE j \in i..(Len(s) + 1) :
    /\ j = Len(s) + 1 \/ ~IsDigit(s[j])
    /\ \A k \in i..(j - 1) : IsDigit(s[k])

AlnumRunEnd(s, i) ==
  CHOOSE j \in i..(Len(s) + 1) :
    /\ j = Len(s) + 1 \/ ~IsAlnum(s[j])
    /\ \A k \in i..(j - 1) : IsAlnum(s[k])

\* \d{min,7}\b from position d: the end of the match (exclusive), 0 for none
DigitsEnd(text, d, min) ==
  IF d > Len(text) + 1 THEN 0
  ELSE IF /\ DigitRunEnd(text, d) - d >= min
          /\ DigitRunEnd(text, d) - d <= 7
          /\ \/ DigitRunEnd(text, d) = Len(text) + 1
             \/ ~IsWordChar(text[DigitRunEnd(text, d)])
  THEN DigitRunEnd(text, d) ELSE 0

\* the four characters at i belong to the owner part of pattern k
\* (1: [A-Z]{4}  2: [A-Z]{4}  3: [A-Z]{3}U  5: [A-Z]{3}[A-Z0-9]  6: [A-Z][A-Z0-9]{3})
OwnerPartAt(text, i, k) ==
  /\ i + 3 <= Len(text)
  /\ i = 1 \/ ~IsWordChar(text[i - 1])
  /\ IsLatin(text[i])
  /\ CASE k \in {1, 2} -> IsLatin(text[i + 1]) /\ IsLatin(text[i + 2]) /\ IsLatin(text[i + 3])
       [] k = 3 -> IsLatin(text[i + 1]) /\ IsLatin(text[i + 2]) /\ text[i + 3] \in {85, 117}
       [] k = 5 -> IsLatin(text[i + 1]) /\ IsLatin(text[i + 2]) /\ IsAlnum(text[i + 3])
       [] OTHER -> IsAlnum(text[i + 1]) /\ IsAlnum(text[i + 2]) /\ IsAlnum(text[i + 3])

\* the end of the match of pattern k (1, 2, 3, 5 or 6) at position i, 0 for none
NumberEndAt(text, i, k) ==
  IF ~OwnerPartAt(text, i, k) THEN 0
  ELSE IF k = 2 /\ i + 4 <= Len(text) /\ IsSpace(text[i + 4])
  THEN DigitsEnd(text, i + 5, 6)
  ELSE DigitsEnd(text, i + 4, IF k \in {1, 3} THEN 7 ELSE 6)

ContainerKeywords ==
  { <<1082, 1086, 1085, 1090, 1077, 1081, 1085, 1077, 1088>>, <<1082, 1090, 1082>>, S(<<"c","o","n","t","a","i","n","e","r">>), S(<<"c","n","t","r">>), <<107, 1090, 107>>, S(<<"k","t","k">>) }

\* pattern 4: a keyword, \s*[#№:]?\s*, then ten or eleven letters and digits;
\* <<start, end>> of the captured group, <<0, 0>> for none
KeywordNumberFrom(text, a) ==
  IF AlnumRunEnd(text, a) - a >= 11 THEN <<a, a + 11>>
  ELSE IF AlnumRunEnd(text, a) - a = 10 THEN <<a, a + 10>>
  ELSE <<0, 0>>

KeywordNumberAfter(text, s) ==
  IF s <= Len(text) /\ text[s] \in {35, 8470, 58}
  THEN KeywordNumberFrom(text, SpaceRunEnd(text, s + 1))
  ELSE KeywordNumberFrom(text, s)

KeywordNumberAt(text, i) ==
  IF KeywordsAt(text, ContainerKeywords, i) = {} THEN <<0, 0>>
  ELSE KeywordNumberAfter(text,
         SpaceRunEnd(text, i + Len(CHOOSE k \in KeywordsAt(text, ContainerKeywords, i) : TRUE)))

\* the text of a match without white space, in upper case, the look-alike
\* digits of its first four characters replaced when it has ten or more
FixedNumber(matched) ==
  LET num == toUpperCase(SelectSeq(matched, LAMBDA c : ~IsSpace(c)))
  IN  IF Len(num) >= 10 THEN FixPrefix(SubSeq(num, 1, 4)) \o SubSeq(num, 5, Len(num))
      ELSE num

\* the matches of pattern k in the order of their positions
NumberMatches(text, k) ==
  IF k = 4
  THEN LET at == Ascending({i \in 1..Len(text) : KeywordNumberAt(text, i)[1] # 0})
       IN  [n \in 1..Len(at) |->
              FixedNumber(SubSeq(text, KeywordNumberAt(text, at[n])[1],
                                 KeywordNumberAt(text, at[n])[2] - 1))]
  ELSE LET at == Ascending({i \in 1..Len(text) : NumberEndAt(text, i, k) # 0})
       IN  [n \in 1..Len(at) |->
              FixedNumber(SubSeq(text, at[n], NumberEndAt(text, at[n], k) - 1))]

\* the numbers the six patterns find, those kept that have the shape
\* /^[A-Z]{4}\d{6,7}$/, in the order they were found
extractContainerNumbers(text) ==
  Distinct(SelectSeq(
    Flatten([k \in 1..6 |-> NumberMatches(text, k)]),
    LAMBDA num : MatchesShape(num, 6) \/ MatchesShape(num, 7)))

\* the eight patterns of extractLocation: the phrases (words joined by \s+),
\* what separates the phrase from the name ([:\s]+, \s+ or [:\s]*), whether
\* 'порт\s+' may precede the name, and what must follow the name
LocationPatterns ==
  << [phrases |-> {<<<<1084, 1077, 1089, 1090, 1086, 1087, 1086, 1083, 1086, 1078, 1077, 1085, 1080, 1077>>>>, <<S(<<"l","o","c","a","t","i","o","n">>)>>},
       sep |-> "colons1", port |-> TRUE, tail |-> "terminator"],
     [phrases |-> {<<<<1087, 1086, 1088, 1090>>>>, <<S(<<"p","o","r","t">>)>>},
       sep |-> "spaces1", port |-> FALSE, tail |-> "none"],
     [phrases |-> {<<<<1089, 1090, 46>>>>, <<<<1089, 1090, 1072, 1085, 1094, 1080, 1103>>>>, <<<<1089, 1090, 1072, 1085, 1094, 1080, 1080>>>>, <<S(<<"s","t","a","t","i","o","n">>)>>},
       sep |-> "spaces1", port |-> FALSE, tail |-> "suffix"],
     [phrases |-> {<<<<1074, 32, 1087, 1086, 1088, 1090, 1091>>>>, <<S(<<"i","n"," ","p","o","r","t">>)>>},
       sep |-> "spaces1", port |-> FALSE, tail |-> "none"],
     [phrases |-> {<<<<1085, 1072, 32, 1089, 1090, 1072, 1085, 1094, 1080, 1080>>>>, <<S(<<"a","t"," ","s","t","a","t","i","o","n">>)>>},
       sep |-> "spaces1", port |-> FALSE, tail |-> "none"],
     [phrases |-> {<<<<1087, 1088, 1080, 1073, 1099, 1083>>, <<1074>>>>, <<<<1087, 1088, 1080, 1073, 1099, 1083, 1072>>, <<1074>>>>},
       sep |-> "spaces1", port |-> FALSE, tail |-> "none"],
     [phrases |-> {<<<<1090, 1077, 1082, 1091, 1097, 1077, 1077, 32, 1084, 1077, 1089, 1090, 1086, 1087, 1086, 1083, 1086, 1078, 1077, 1085, 1080, 1077>>>>, <<S(<<"c","u","r","r","e","n","t"," ","l","o","c","a","t","i","o","n">>)>>},
       sep |-> "colons0", port |-> FALSE, tail |-> "none"],
     [phrases |-> {<<<<1085, 1072, 1093, 1086, 1076, 1080, 1090, 1089, 1103>>, <<1074>>>>, <<<<1085, 1072, 1093, 1086, 1076, 1080, 1090, 1089, 1103>>, <<1085, 1072>>>>},
       sep |-> "spaces1", port |-> FALSE, tail |-> "none"] >>

RECURSIVE PhraseEnd(_, _, _)
\* the position after a phrase that starts at i, 0 when it does not
PhraseEnd(lower, words, i) ==
  IF ~OccursAt(lower, words[1], i) THEN 0
  ELSE IF Len(words) = 1 THEN i + Len(words[1])
  ELSE IF SpaceRunEnd(lower, i + Len(words[1])) = i + Len(words[1]) THEN 0
  ELSE PhraseEnd(lower, Tail(words), SpaceRunEnd(lower, i + Len(words[1])))

\* [:\s]* from position i
ColonRunEnd(s, i) ==
  CHOOSE j \in i..(Len(s) + 1) :
    /\ j = Len(s) + 1 \/ ~(s[j] = 58 \/ IsSpace(s[j]))
    /\ \A k \in i..(j - 1) : s[k] = 58 \/ IsSpace(s[k])

\* [А-Яа-яёЁA-Za-z]+ from position i
LetterRunEnd(s, i) ==
  CHOOSE j \in i..(Len(s) + 1) :
    /\ j = Len(s) + 1 \/ ~IsLetter(s[j])
    /\ \A k \in i..(j - 1) : IsLetter(s[k])

\* the end of the optional (?:\s*[\-]\s*[letters]+) after a name that ends at en
SuffixEnd(text, en) ==
  LET h == SpaceRunEnd(text, en)
  IN  IF h <= Len(text) /\ text[h] = 45
         /\ LetterRunEnd(text, SpaceRunEnd(text, h + 1)) > SpaceRunEnd(text, h + 1)
      THEN LetterRunEnd(text, SpaceRunEnd(text, h + 1))
      ELSE en

\* the name captured from position nm under the tail rule, or None
CapturedName(text, tail, nm, en) ==
  IF en = nm THEN None
  ELSE IF tail = "terminator"
  THEN IF en = Len(text) + 1 \/ text[en] \in {46, 44, 10}
       THEN Some(SubSeq(text, nm, en - 1)) ELSE None
  ELSE IF tail = "suffix" THEN Some(SubSeq(text, nm, SuffixEnd(text, en) - 1))
  ELSE Some(SubSeq(text, nm, en - 1))

NameFrom(text, tail, nm) ==
  IF nm > Len(text) THEN None ELSE CapturedName(text, tail, nm, NameRunEnd(text, nm))

\* the name after the separator; with 'порт\s+' taken first when the pattern
\* allows it and a name follows
NameAfterSeparator(text, lower, p, nm) ==
  IF /\ p.port
     /\ OccursAt(lower, <<1087, 1086, 1088, 1090>>, nm)
     /\ SpaceRunEnd(text, nm + 4) > nm + 4
     /\ IsSome(NameFrom(text, p.tail, SpaceRunEnd(text, nm + 4)))
  THEN NameFrom(text, p.tail, SpaceRunEnd(text, nm + 4))
  ELSE NameFrom(text, p.tail, nm)

\* the name after a phrase that ends before position e
NameAfterPhrase(text, lower, p, e) ==
  CASE p.sep = "spaces1" ->
         IF SpaceRunEnd(text, e) = e THEN None
         ELSE NameAfterSeparator(text, lower, p, SpaceRunEnd(text, e))
    [] p.sep = "colons1" ->
         IF ColonRunEnd(text, e) = e THEN None
         ELSE NameAfterSeparator(text, lower, p, ColonRunEnd(text, e))
    [] OTHER -> NameAfterSeparator(text, lower, p, ColonRunEnd(text, e))

\* the match of a pattern at position i
LocationPatternAt(text, lower, p, i) ==
  LET ends == {PhraseEnd(lower, w, i) : w \in p.phrases} \ {0}
      names == {NameAfterPhrase(text, lower, p, e) : e \in ends} \ {None}
  IN  IF names = {} THEN None ELSE CHOOSE n \in names : TRUE

\* text.match(pattern): the leftmost match
LocationPatternMatch(text, lower, p) ==
  LET at == {i \in 1..Len(text) : IsSome(LocationPatternAt(text, lower, p, i))}
  IN  IF at = {} THEN None
      ELSE LocationPatternAt(text, lower, p, CHOOSE i \in at : \A j \in at : i <= j)

LocationStopWords ==
  { <<1085, 1072, 1079, 1085, 1072, 1095, 1077, 1085, 1080, 1103>>, <<1086, 1090, 1087, 1088, 1072, 1074, 1083, 1077, 1085, 1080, 1103>>, S(<<"d","e","s","t","i","n","a","t","i","o","n">>), S(<<"o","r","i","g","i","n">>) }

\* a capture is returned if it has more than two characters and is not a
\* service word
AcceptedLocation(match) ==
  /\ IsSome(match)
  /\ Len(trim(Get(match))) > 2
  /\ toLowerCase(trim(Get(match))) \notin LocationStopWords

\* the capture of the first pattern whose leftmost match is accepted
FirstLocation(matches) ==
  LET hits == {k \in 1..Len(matches) : AcceptedLocation(matches[k])}
  IN  IF hits = {} THEN None
      ELSE Some(trim(Get(matches[CHOOSE k \in hits : \A j \in hits : k <= j])))

extractLocation(text) ==
  FirstLocation([k \in 1..Len(LocationPatterns) |->
                   LocationPatternMatch(text, toLowerCase(text), LocationPatterns[k])])

\* extractDataFromText for a text in which the other extractors (distance,
\* dates, route, origin, destination) find nothing
TextItem(text, containerNumber) ==
  ParsedItem(containerNumber, Some(extractStatus(text)), extractLocation(text),
             None, None, None, None)

\* if (item.statusCode || item.location): the status code is a string that
\* is never empty
KeepsTextItem(item) == Truthy(item.statusCode) \/ Truthy(item.location)

\* the branch of parseText for a text without a container number
ParsedWithoutNumber(item) ==
  IF KeepsTextItem(item)
  THEN [ threw |-> FALSE, items |-> <<item>>, errors |-> <<>>,
         warnings |-> << <<"containerNotFound">> >> ]
  ELSE [ threw |-> FALSE, items |-> <<>>, errors |-> << <<"noUsefulData">> >>,
         warnings |-> <<>> ]

ParsedNumbers(text, numbers) ==
  IF Len(numbers) = 0 THEN ParsedWithoutNumber(TextItem(text, None))
  ELSE [ threw |-> FALSE,
         items |-> [i \in 1..Len(numbers) |-> TextItem(text, Some(numbers[i]))],
         errors |-> <<>>, warnings |-> <<>> ]

parseText(text) == ParsedNumbers(text, extractContainerNumbers(text))

----------------------------------------------------------------------------
(* universalParser: table rows *)

\* the truthiness of a JSON value
JTruthy(v) ==
  CASE v.kind = "string" -> Len(v.chars) > 0
    [] v.kind = "number" -> v.n # 0
    [] v.kind \in {"undefined", "null"} -> FALSE
    [] OTHER -> TRUE

\* s.replace(/[_\s\-]/g, '')
StripSeparators(s) == SelectSeq(s, LAMBDA c : ~(c = 95 \/ c = 45 \/ IsSpace(c)))

\* key.toLowerCase().replace(/^"|"$/g, '').replace(/[_\s\-]/g, '')
NormalizeKey(key) ==
  LET lower == toLowerCase(key)
      a == IF Len(lower) > 0 /\ lower[1] = 34 THEN Tail(lower) ELSE lower
      b == IF Len(a) > 0 /\ a[Len(a)] = 34 THEN SubSeq(a, 1, Len(a) - 1) ELSE a
  IN  StripSeparators(b)

\* normalizedRow: the fields of the row under their normalized keys
NormalizedRow(row) ==
  JObj([i \in 1..Len(row.fields) |-> <<NormalizeKey(row.fields[i][1]), row.fields[i][2]>>])

\* the value of the first name that the object defines, or undefined
findField(obj, names) ==
  LET hits == {i \in 1..Len(names) : Field(obj, names[i]).kind # "undefined"}
  IN  IF hits = {} THEN JUndefined
      ELSE Field(obj, names[CHOOSE i \in hits : \A j \in hits : i <= j])

\* value.trim().replace(/["\s]/g, '').toUpperCase()
CleanCell(s) == toUpperCase(SelectSeq(trim(s), LAMBDA c : ~(c = 34 \/ IsSpace(c))))

\* the first string value of the row that has the shape /^[A-Z]{4}\d{6,7}$/
ContainerByShape(obj) ==
  LET hits == {i \in 1..Len(obj.fields) :
                 /\ obj.fields[i][2].kind = "string"
                 /\ \/ MatchesShape(CleanCell(obj.fields[i][2].chars), 6)
                    \/ MatchesShape(CleanCell(obj.fields[i][2].chars), 7)}
  IN  IF hits = {} THEN None
      ELSE Some(CleanCell(obj.fields[CHOOSE i \in hits : \A j \in hits : i <= j][2].chars))

\* a field that is read 'as string | undefined': the value is passed on as it
\* is, a number included; null and undefined are both absent
AsStringField(v) ==
  CASE v.kind = "string" -> Some(v.chars)
    [] v.kind = "number" -> Some(NumberValue(v.n))
    [] OTHER -> None

\* the container number of a row: the named field or, when that is falsy,
\* the first value with the shape of a number
RowContainer(obj, named) ==
  IF JTruthy(named) THEN AsStringField(named) ELSE
  IF IsSome(ContainerByShape(obj)) THEN ContainerByShape(obj) ELSE AsStringField(named)

StatusMapping ==
  << <<S(<<"d","e","l","i","v","e","r","e","d">>), S(<<"D","E","L","I","V","E","R","E","D">>)>>,
     <<S(<<"o","n","r","a","i","l">>), S(<<"O","N","_","R","A","I","L">>)>>,
     <<S(<<"r","a","i","l">>), S(<<"O","N","_","R","A","I","L">>)>>,
     <<S(<<"o","n","s","h","i","p">>), S(<<"O","N","_","S","H","I","P">>)>>,
     <<S(<<"s","h","i","p">>), S(<<"O","N","_","S","H","I","P">>)>>,
     <<S(<<"i","n","p","o","r","t">>), S(<<"I","N","_","P","O","R","T">>)>>,
     <<S(<<"p","o","r","t">>), S(<<"I","N","_","P","O","R","T">>)>>,
     <<S(<<"a","r","r","i","v","e","d","p","o","r","t">>), S(<<"A","R","R","I","V","E","D","_","P","O","R","T">>)>>,
     <<S(<<"l","o","a","d","e","d">>), S(<<"L","O","A","D","E","D">>)>>,
     <<S(<<"o","n","w","a","r","e","h","o","u","s","e">>), S(<<"O","N","_","W","A","R","E","H","O","U","S","E">>)>>,
     <<S(<<"w","a","r","e","h","o","u","s","e">>), S(<<"O","N","_","W","A","R","E","H","O","U","S","E">>)>>,
     <<S(<<"c","u","s","t","o","m","s">>), S(<<"C","U","S","T","O","M","S">>)>>,
     <<S(<<"c","u","s","t","o","m","s","c","l","e","a","r","e","d">>), S(<<"C","U","S","T","O","M","S","_","C","L","E","A","R","E","D">>)>>,
     <<S(<<"i","n","t","r","a","n","s","i","t">>), S(<<"I","N","_","T","R","A","N","S","I","T">>)>>,
     <<S(<<"t","r","a","n","s","i","t">>), S(<<"I","N","_","T","R","A","N","S","I","T">>)>>,
     <<S(<<"o","n","a","n","c","h","o","r","a","g","e">>), S(<<"O","N","_","A","N","C","H","O","R","A","G","E">>)>>,
     <<S(<<"a","n","c","h","o","r","a","g","e">>), S(<<"O","N","_","A","N","C","H","O","R","A","G","E">>)>>,
     <<S(<<"r","a","i","l","a","r","r","i","v","e","d">>), S(<<"R","A","I","L","_","A","R","R","I","V","E","D">>)>>,
     <<S(<<"o","n","a","u","t","o">>), S(<<"O","N","_","A","U","T","O">>)>>,
     <<S(<<"a","u","t","o">>), S(<<"O","N","_","A","U","T","O">>)>>,
     <<S(<<"u","n","l","o","a","d","e","d">>), S(<<"U","N","L","O","A","D","E","D">>)>>,
     <<S(<<"u","n","k","n","o","w","n">>), S(<<"U","N","K","N","O","W","N">>)>>,
     <<<<1076, 1086, 1089, 1090, 1072, 1074, 1083, 1077, 1085>>, S(<<"D","E","L","I","V","E","R","E","D">>)>>,
     <<<<1085, 1072, 1078, 1076>>, S(<<"O","N","_","R","A","I","L">>)>>,
     <<<<1078, 1076>>, S(<<"O","N","_","R","A","I","L">>)>>,
     <<<<1078, 1077, 1083, 1077, 1079, 1085, 1086, 1076, 1086, 1088, 1086, 1078, 1085, 1099, 1081>>, S(<<"O","N","_","R","A","I","L">>)>>,
     <<<<1074, 1084, 1086, 1088, 1077>>, S(<<"O","N","_","S","H","I","P">>)>>,
     <<<<1084, 1086, 1088, 1077>>, S(<<"O","N","_","S","H","I","P">>)>>,
     <<<<1084, 1086, 1088, 1077, 1084>>, S(<<"O","N","_","S","H","I","P">>)>>,
     <<<<1074, 1087, 1086, 1088, 1090, 1091>>, S(<<"I","N","_","P","O","R","T">>)>>,
     <<<<1087, 1086, 1088, 1090>>, S(<<"I","N","_","P","O","R","T">>)>>,
     <<<<1087, 1088, 1080, 1073, 1099, 1083, 1074, 1087, 1086, 1088, 1090>>, S(<<"A","R","R","I","V","E","D","_","P","O","R","T">>)>>,
     <<<<1087, 1086, 1075, 1088, 1091, 1078, 1077, 1085>>, S(<<"L","O","A","D","E","D">>)>>,
     <<<<1079, 1072, 1075, 1088, 1091, 1078, 1077, 1085>>, S(<<"L","O","A","D","E","D">>)>>,
     <<<<1086, 1090, 1075, 1088, 1091, 1078, 1077, 1085>>, S(<<"L","O","A","D","E","D">>)>>,
     <<<<1089, 1074, 1093>>, S(<<"O","N","_","W","A","R","E","H","O","U","S","E">>)>>,
     <<<<1089, 1082, 1083, 1072, 1076>>, S(<<"O","N","_","W","A","R","E","H","O","U","S","E">>)>>,
     <<<<1085, 1072, 1089, 1074, 1093>>, S(<<"O","N","_","W","A","R","E","H","O","U","S","E">>)>>,
     <<<<1090, 1072, 1084, 1086, 1078, 1085, 1103>>, S(<<"C","U","S","T","O","M","S">>)>>,
     <<<<1088, 1072, 1089, 1090, 1072, 1084, 1086, 1078, 1077, 1085>>, S(<<"C","U","S","T","O","M","S","_","C","L","E","A","R","E","D">>)>>,
     <<<<1074, 1087, 1091, 1090, 1080>>, S(<<"I","N","_","T","R","A","N","S","I","T">>)>>,
     <<<<1089, 1083, 1077, 1076, 1091, 1077, 1090>>, S(<<"I","N","_","T","R","A","N","S","I","T">>)>>,
     <<<<1085, 1072, 1088, 1077, 1081, 1076, 1077>>, S(<<"O","N","_","A","N","C","H","O","R","A","G","E">>)>>,
     <<<<1088, 1077, 1081, 1076>>, S(<<"O","N","_","A","N","C","H","O","R","A","G","E">>)>>,
     <<<<1085, 1072, 1089, 1090, 1072, 1085, 1094, 1080, 1080>>, S(<<"R","A","I","L","_","A","R","R","I","V","E","D">>)>>,
     <<<<1087, 1088, 1080, 1073, 1099, 1083, 1085, 1072, 1089, 1090, 1072, 1085, 1094, 1080, 1102>>, S(<<"R","A","I","L","_","A","R","R","I","V","E","D">>)>>,
     <<<<1072, 1074, 1090, 1086>>, S(<<"O","N","_","A","U","T","O">>)>>,
     <<<<1072, 1074, 1090, 1086, 1076, 1086, 1089, 1090, 1072, 1074, 1082, 1072>>, S(<<"O","N","_","A","U","T","O">>)>>,
     <<<<1074, 1099, 1075, 1088, 1091, 1078, 1077, 1085>>, S(<<"U","N","L","O","A","D","E","D">>)>> >>

\* the code of a status text: the exact key, else the first key of the table
\* that contains the text or is contained in it
MappedStatus(mapping, lower) ==
  LET exact == {i \in 1..Len(mapping) : mapping[i][1] = lower}
      part == {i \in 1..Len(mapping) :
                 includes(lower, mapping[i][1]) \/ includes(mapping[i][1], lower)}
  IN  IF exact # {} THEN mapping[CHOOSE i \in exact : TRUE][2]
      ELSE IF part # {} THEN mapping[CHOOSE i \in part : \A j \in part : i <= j][2]
      ELSE Get(UnknownStatus)

\* raw.toLowerCase() throws for a truthy value that is not a string
StatusCodeThrows(raw) == JTruthy(raw) /\ raw.kind # "string"

normalizeStatusCode(raw) ==
  IF ~JTruthy(raw) THEN Get(UnknownStatus)
  ELSE MappedStatus(StatusMapping, StripSeparators(toLowerCase(raw.chars)))

\* parseInt(value.replace(/[^\d]/g, ''), 10) for up to four digits, a number
\* as it is, undefined otherwise
parseNumber(value) ==
  CASE value.kind = "number" -> Some(R(value.n, 1))
    [] value.kind = "string" ->
         IF Len(SelectSeq(value.chars, IsDigit)) = 0 THEN None
         ELSE Some(R(ParseInt(SelectSeq(value.chars, IsDigit)), 1))
    [] OTHER -> None

ContainerNames == <<S(<<"c","o","n","t","a","i","n","e","r","n","u","m","b","e","r">>), S(<<"c","o","n","t","a","i","n","e","r">>), S(<<"k","t","k">>), <<1082, 1090, 1082>>, <<1085, 1086, 1084, 1077, 1088>>, S(<<"n","u","m","b","e","r">>), S(<<"c","o","n","t","a","i","n","e","r","i","d">>)>>
StatusNames == <<S(<<"s","t","a","t","u","s","c","o","d","e">>), S(<<"s","t","a","t","u","s">>), S(<<"s","t","a","t","e">>), <<1089, 1086, 1089, 1090, 1086, 1103, 1085, 1080, 1077>>, <<1089, 1090, 1072, 1090, 1091, 1089>>>>
LocationNames == <<S(<<"l","o","c","a","t","i","o","n">>), S(<<"c","u","r","r","e","n","t","l","o","c","a","t","i","o","n">>), <<1090, 1077, 1082, 1091, 1097, 1077, 1077, 1084, 1077, 1089, 1090, 1086, 1087, 1086, 1083, 1086, 1078, 1077, 1085, 1080, 1077>>, <<1083, 1086, 1082, 1072, 1094, 1080, 1103>>, <<1084, 1077, 1089, 1090, 1086, 1087, 1086, 1083, 1086, 1078, 1077, 1085, 1080, 1077>>, S(<<"s","t","a","t","i","o","n">>), <<1089, 1090, 1072, 1085, 1094, 1080, 1103>>>>
DistanceNames == <<S(<<"d","i","s","t","a","n","c","e">>), <<1088, 1072, 1089, 1089, 1090, 1086, 1103, 1085, 1080, 1077>>, <<1076, 1080, 1089, 1090, 1072, 1085, 1094, 1080, 1103>>, S(<<"d","i","s","t","a","n","c","e","t","o","d","e","s","t","i","n","a","t","i","o","n">>), <<1082, 1084>>>>
EtaNames == <<S(<<"e","t","a">>), S(<<"a","r","r","i","v","a","l","d","a","t","e">>), <<1076, 1072, 1090, 1072, 1087, 1088, 1080, 1073, 1099, 1090, 1080, 1103>>, <<1086, 1088, 1080, 1077, 1085, 1090, 1080, 1088, 1086, 1074, 1086, 1095, 1085, 1072, 1103, 1076, 1072, 1090, 1072>>, S(<<"e","x","p","e","c","t","e","d","a","r","r","i","v","a","l">>)>>
EventTimeNames == <<S(<<"e","v","e","n","t","t","i","m","e">>), S(<<"d","a","t","e","t","i","m","e">>), S(<<"d","a","t","e">>), <<1076, 1072, 1090, 1072>>, <<1074, 1088, 1077, 1084, 1103>>, S(<<"t","i","m","e","s","t","a","m","p">>)>>
OriginNames == <<S(<<"o","r","i","g","i","n">>), S(<<"f","r","o","m">>), <<1087, 1091, 1085, 1082, 1090, 1086, 1090, 1087, 1088, 1072, 1074, 1083, 1077, 1085, 1080, 1103>>, <<1086, 1090, 1082, 1091, 1076, 1072>>, <<1086, 1090, 1087, 1088, 1072, 1074, 1083, 1077, 1085, 1080, 1077>>>>
DestinationNames == <<S(<<"d","e","s","t","i","n","a","t","i","o","n">>), S(<<"t","o">>), <<1087, 1091, 1085, 1082, 1090, 1085, 1072, 1079, 1085, 1072, 1095, 1077, 1085, 1080, 1103>>, <<1082, 1091, 1076, 1072>>, <<1085, 1072, 1079, 1085, 1072, 1095, 1077, 1085, 1080, 1077>>>>

----------------------------------------------------------------------------
(* universalParser: dates *)

\* the decimal digits of n, padded with zeros to the width
Pad(n, width) ==
  [i \in 1..(width - Len(NatToString(n))) |-> 48] \o NatToString(n)

\* Date.prototype.toISOString of an instant
toISOString(t) ==
  Pad(t[1], 4) \o <<45>> \o Pad(t[2], 2) \o <<45>> \o Pad(t[3], 2) \o <<84>>
  \o Pad(t[4] \div 3600, 2) \o <<58>> \o Pad((t[4] \div 60) % 60, 2) \o <<58>>
  \o Pad(t[4] % 60, 2) \o S(<<".","0","0","0","Z">>)

\* the table of parseMonthName: month names and their 0-based numbers
MonthNames ==
  << <<<<1103, 1085, 1074, 1072, 1088, 1103>>, 0>>,
     <<<<1103, 1085, 1074>>, 0>>,
     <<S(<<"j","a","n">>), 0>>,
     <<<<1092, 1077, 1074, 1088, 1072, 1083, 1103>>, 1>>,
     <<<<1092, 1077, 1074>>, 1>>,
     <<S(<<"f","e","b">>), 1>>,
     <<<<1084, 1072, 1088, 1090, 1072>>, 2>>,
     <<<<1084, 1072, 1088>>, 2>>,
     <<S(<<"m","a","r">>), 2>>,
     <<<<1072, 1087, 1088, 1077, 1083, 1103>>, 3>>,
     <<<<1072, 1087, 1088>>, 3>>,
     <<S(<<"a","p","r">>), 3>>,
     <<<<1084, 1072, 1103>>, 4>>,
     <<S(<<"m","a","y">>), 4>>,
     <<<<1080, 1102, 1085, 1103>>, 5>>,
     <<<<1080, 1102, 1085>>, 5>>,
     <<S(<<"j","u","n">>), 5>>,
     <<<<1080, 1102, 1083, 1103>>, 6>>,
     <<<<1080, 1102, 1083>>, 6>>,
     <<S(<<"j","u","l">>), 6>>,
     <<<<1072, 1074, 1075, 1091, 1089, 1090, 1072>>, 7>>,
     <<<<1072, 1074, 1075>>, 7>>,
     <<S(<<"a","u","g">>), 7>>,
     <<<<1089, 1077, 1085, 1090, 1103, 1073, 1088, 1103>>, 8>>,
     <<<<1089, 1077, 1085>>, 8>>,
     <<S(<<"s","e","p">>), 8>>,
     <<<<1086, 1082, 1090, 1103, 1073, 1088, 1103>>, 9>>,
     <<<<1086, 1082, 1090>>, 9>>,
     <<S(<<"o","c","t">>), 9>>,
     <<<<1085, 1086, 1103, 1073, 1088, 1103>>, 10>>,
     <<<<1085, 1086, 1103>>, 10>>,
     <<S(<<"n","o","v">>), 10>>,
     <<<<1076, 1077, 1082, 1072, 1073, 1088, 1103>>, 11>>,
     <<<<1076, 1077, 1082>>, 11>>,
     <<S(<<"d","e","c">>), 11>> >>

\* months[name.toLowerCase()] ?? 0
parseMonthName(name) ==
  LET hits == {i \in 1..Len(MonthNames) : MonthNames[i][1] = toLowerCase(name)}
  IN  IF hits = {} THEN 0 ELSE MonthNames[CHOOSE i \in hits : \A j \in hits : j <= i][2]

\* /^(\d{1,2})\s+([A-Za-zА-Яа-яёЁ]{3,})\s+(\d{4})$/: the three groups, or None
NamedMonthFields(str) ==
  LET n == Len(str)
      d == IF n >= 2 /\ IsDigit(str[1]) /\ IsDigit(str[2]) THEN 2
           ELSE IF n >= 1 /\ IsDigit(str[1]) THEN 1 ELSE 0
      w == SpaceRunEnd(str, d + 1)
      e == n - 4
  IN  IF d = 0 \/ w = d + 1 \/ e < w + 3 THEN None
      ELSE IF ~AllDigits(SubSeq(str, n - 3, n)) THEN None
      ELSE LET name == TrimRight(SubSeq(str, w, e))
           IN  IF /\ Len(name) >= 3
                  /\ Len(name) < e - w + 1
                  /\ \A i \in 1..Len(name) : IsLetter(name[i])
               THEN Some(<<SubSeq(str, 1, d), name, SubSeq(str, n - 3, n)>>)
               ELSE None

\* year += year > 50 ? 1900 : 2000 for a year below 100
FullYear(year) == IF year < 100 THEN (IF year > 50 THEN year + 1900 ELSE year + 2000) ELSE year

\* what the k-th of the seven date patterns reads from the text:
\* <<year, month (1-based), day>>, or None when the pattern does not match
PatternDate(str, f, k) ==
  CASE k = 1 ->
         IF IsSome(f) /\ Len(Get(f)[1]) \in {1, 2} /\ Len(Get(f)[2]) \in {1, 2} /\ Len(Get(f)[3]) = 4
         THEN Some(<<FullYear(ParseInt(Get(f)[3])), ParseInt(Get(f)[2]), ParseInt(Get(f)[1])>>)
         ELSE None
    [] k = 2 ->
         IF IsSome(f) /\ Len(Get(f)[1]) \in {1, 2} /\ Len(Get(f)[2]) \in {1, 2} /\ Len(Get(f)[3]) = 2
         THEN Some(<<FullYear(ParseInt(Get(f)[3])), ParseInt(Get(f)[2]), ParseInt(Get(f)[1])>>)
         ELSE None
    [] k = 3 ->
         IF IsSome(f) /\ Len(Get(f)[1]) = 4 /\ Len(Get(f)[2]) \in {1, 2} /\ Len(Get(f)[3]) \in {1, 2}
         THEN Some(<<FullYear(ParseInt(Get(f)[1])), ParseInt(Get(f)[2]), ParseInt(Get(f)[3])>>)
         ELSE None
    [] k = 4 ->
         IF /\ Len(str) >= 11
            /\ AllDigits(SubSeq(str, 1, 4)) /\ str[5] = 45
            /\ AllDigits(SubSeq(str, 6, 7)) /\ str[8] = 45
            /\ AllDigits(SubSeq(str, 9, 10)) /\ str[11] = 84
         THEN Some(<<FullYear(ParseInt(SubSeq(str, 1, 4))), ParseInt(SubSeq(str, 6, 7)),
                     ParseInt(SubSeq(str, 9, 10))>>)
         ELSE None
    [] k = 5 ->
         IF IsSome(NamedMonthFields(str))
         THEN Some(<<FullYear(ParseInt(Get(NamedMonthFields(str))[3])),
                     parseMonthName(Get(NamedMonthFields(str))[2]) + 1,
                     ParseInt(Get(NamedMonthFields(str))[1])>>)
         ELSE None
    [] k = 6 ->
         IF Len(str) = 8 /\ AllDigits(str)
         THEN Some(<<FullYear(ParseInt(SubSeq(str, 5, 8))), ParseInt(SubSeq(str, 3, 4)),
                     ParseInt(SubSeq(str, 1, 2))>>)
         ELSE None
    [] OTHER ->
         IF Len(str) = 8 /\ AllDigits(str)
         THEN Some(<<FullYear(ParseInt(SubSeq(str, 1, 4))), ParseInt(SubSeq(str, 5, 6)),
                     ParseInt(SubSeq(str, 7, 8))>>)
         ELSE None

\* the ranges parseDate accepts: month 0..11 (0-based), day 1..31, year 2020..2035
ParserDateInRange(d) ==
  /\ ~(d[2] < 1 \/ d[2] > 12)
  /\ ~(d[3] < 1 \/ d[3] > 31)
  /\ ~(d[1] < 2020 \/ d[1] > 2035)

\* new Date(year, month, day).toISOString() for the fields of a match
IsoOfFields(d) == toISOString(NewDate(d[1], d[2], d[3]))

\* the patterns are tried in order; one that matches with a value out of range
\* is passed over; then new Date(str), accepted for the years 2020..2035
DateChosen(dates, native) ==
  LET hits == {k \in 1..7 : IsSome(dates[k]) /\ ParserDateInRange(Get(dates[k]))}
  IN  IF hits # {}
      THEN Some(IsoOfFields(Get(dates[CHOOSE k \in hits : \A j \in hits : k <= j])))
      ELSE IF IsSome(native) /\ Get(native)[1] \in 2020..2035
      THEN Some(toISOString(Get(native)))
      ELSE None

ParsedDate(str, f) ==
  DateChosen([k \in 1..7 |-> PatternDate(str, f, k)], NativeDate(str))

\* String(value): the text of a string or of a natural number
StringOf(value) ==
  IF value.kind = "string" THEN value.chars ELSE NatToString(value.n)

\* parseDate(value): an ISO date-time, or None (null)
parseDate(value) ==
  IF ~JTruthy(value) THEN None
  ELSE ParsedDate(trim(StringOf(value)), DateFields(trim(StringOf(value))))

----------------------------------------------------------------------------
(* universalParser: arrays of rows *)

\* eta and eventTime of the row
RowDates(obj) ==
  [k \in 1..2 |-> parseDate(findField(obj, IF k = 1 THEN EtaNames ELSE EventTimeNames))]

\* the ParsedItem that mapTableRow builds from the normalized row
MappedRow(obj) ==
  [ containerNumber |-> RowContainer(obj, findField(obj, ContainerNames)),
    statusCode |-> Some(normalizeStatusCode(findField(obj, StatusNames))),
    location |-> AsStringField(findField(obj, LocationNames)),
    locationType |-> None,
    distanceToDestination |-> parseNumber(findField(obj, DistanceNames)),
    eta |-> RowDates(obj)[1],
    eventTime |-> RowDates(obj)[2],
    origin |-> AsStringField(findField(obj, OriginNames)),
    destination |-> AsStringField(findField(obj, DestinationNames)) ]

MapNormalized(obj) ==
  IF StatusCodeThrows(findField(obj, StatusNames)) THEN Threw("TypeError")
  ELSE [threw |-> FALSE, item |-> MappedRow(obj)]

mapTableRow(row) == MapNormalized(NormalizedRow(row))

\* what one row adds to the items and warnings of parseJsonArray: a string is
\* parsed as text, an object (an array included) is mapped, a row whose
\* mapping throws leaves a warning with its index, any other value is skipped
MappedOutcome(mapped, i) ==
  IF HasThrown(mapped) THEN [items |-> <<>>, warnings |-> << <<"rowFailed", i - 1>> >>]
  ELSE [items |-> <<mapped.item>>, warnings |-> <<>>]

RowOutcome(row, i) ==
  CASE row.kind = "string" -> [items |-> parseText(row.chars).items, warnings |-> <<>>]
    [] row.kind \in {"object", "array"} ->
         MappedOutcome(mapTableRow(IF row.kind = "object" THEN row ELSE JObj(<<>>)), i)
    [] OTHER -> [items |-> <<>>, warnings |-> <<>>]

\* what the rows added, in the order of the rows
CollectedRows(outcomes) ==
  [ threw |-> FALSE,
    items |-> Flatten([i \in 1..Len(outcomes) |-> outcomes[i].items]),
    errors |-> <<>>,
    warnings |-> Flatten([i \in 1..Len(outcomes) |-> outcomes[i].warnings]) ]

\* the loop of parseJsonArray over the rows
ParsedRows(rows) == CollectedRows([i \in 1..Len(rows) |-> RowOutcome(rows[i], i)])

\* a ParseResult that holds one error and nothing else
ParseFailed(tag) ==
  [threw |-> FALSE, items |-> <<>>, errors |-> << <<tag>> >>, warnings |-> <<>>]

\* the rows that parseJsonArray loops over for the value JSON.parse returned:
\* the elements of an array, the characters of a string, nothing for a value
\* without a length
JsonRows(parsed) ==
  CASE parsed.kind = "array" -> parsed.items
    [] parsed.kind = "string" -> [i \in 1..Len(parsed.chars) |-> JStr(<<parsed.chars[i]>>)]
    [] OTHER -> <<>>

\* the step that a parser of universalParser ends in: parseText for a text,
\* the loop of parseJsonArray over rows, mapTableRow for one object, or the
\* error that its catch branch pushes
TextStep(chars) == [via |-> "text", text |-> chars]
RowsStep(rows) == [via |-> "rows", rows |-> rows]
RowStep(obj, tag) == [via |-> "row", obj |-> obj, tag |-> tag]
FailedStep(tag) == [via |-> "failed", tag |-> tag]

\* parseJsonArray(content): an array is taken as it is, a string is parsed as
\* JSON (a text that is no JSON, and null, whose length cannot be read, end
\* in the catch branch), any other value becomes the only row
JsonArrayStep(content) ==
  IF content.kind = "array" THEN RowsStep(content.items)
  ELSE IF content.kind = "string"
  THEN IF ~IsSome(content.json) \/ Get(content.json).kind = "null"
       THEN FailedStep("jsonArrayFailed")
       ELSE RowsStep(JsonRows(Get(content.json)))
  ELSE RowsStep(<<content>>)

\* the loop over the rows of the step, or its error
RowsParsed(step) ==
  IF step.via = "rows" THEN ParsedRows(step.rows) ELSE ParseFailed(step.tag)

parseJsonArray(content) == RowsParsed(JsonArrayStep(content))

----------------------------------------------------------------------------
(* universalParser: objects and the choice of the parser *)

\* the value that `typeof content === 'string' ? JSON.parse(content) : content`
\* gives, None when JSON.parse throws
ParsedContent(content) == IF content.kind = "string" THEN content.json ELSE Some(content)

\* Object.entries(value) as an object: the own properties of an object, the
\* indexed elements of an array or of a string, nothing for a number
Entries(value) ==
  CASE value.kind = "object" -> value
    [] value.kind = "array" ->
         JObj([i \in 1..Len(value.items) |-> <<NatToString(i - 1), value.items[i]>>])
    [] value.kind = "string" ->
         JObj([i \in 1..Len(value.chars) |-> <<NatToString(i - 1), JStr(<<value.chars[i]>>)>>])
    [] OTHER -> JObj(<<>>)

\* items.push(this.mapTableRow(obj)) inside a try: a throw becomes the error
MappedOrFailed(mapped, tag) ==
  IF HasThrown(mapped) THEN ParseFailed(tag)
  ELSE [threw |-> FALSE, items |-> <<mapped.item>>, errors |-> <<>>, warnings |-> <<>>]

MappedAlone(obj, tag) ==
  IF obj.kind \in {"null", "undefined"} THEN ParseFailed(tag)
  ELSE MappedOrFailed(mapTableRow(Entries(obj)), tag)

\* obj.name for a value that JSON.parse or the caller gave; an array, a string
\* or a number has no such property
Property(obj, name) == IF obj.kind = "object" THEN Field(obj, name) ELSE JUndefined

\* parseJsonObject for the parsed object: a nested rows, data or containers
\* array is parsed as an array, a body string as text, anything else is mapped
\* as one table row.  The carrierName that is copied onto the items of a body
\* is not part of ParsedItem here.
JsonObjectParsed(obj) ==
  IF obj.kind = "null" THEN FailedStep("jsonObjectFailed")
  ELSE IF Property(obj, S(<<"r","o","w","s">>)).kind = "array"
  THEN JsonArrayStep(Property(obj, S(<<"r","o","w","s">>)))
  ELSE IF Property(obj, S(<<"d","a","t","a">>)).kind = "array"
  THEN JsonArrayStep(Property(obj, S(<<"d","a","t","a">>)))
  ELSE IF Property(obj, S(<<"c","o","n","t","a","i","n","e","r","s">>)).kind = "array"
  THEN JsonArrayStep(Property(obj, S(<<"c","o","n","t","a","i","n","e","r","s">>)))
  ELSE IF Property(obj, S(<<"b","o","d","y">>)).kind = "string"
  THEN TextStep(Property(obj, S(<<"b","o","d","y">>)).chars)
  ELSE RowStep(obj, "jsonObjectFailed")

JsonObjectStep(content) ==
  IF ~IsSome(ParsedContent(content)) THEN FailedStep("jsonObjectFailed")
  ELSE JsonObjectParsed(Get(ParsedContent(content)))

TableRowStep(content) ==
  IF ~IsSome(ParsedContent(content)) THEN FailedStep("tableRowFailed")
  ELSE RowStep(Get(ParsedContent(content)), "tableRowFailed")

\* the elements of a sequence of strings with sep between them
RECURSIVE Join(_, _)
Join(parts, sep) ==
  IF Len(parts) = 0 THEN <<>>
  ELSE IF Len(parts) = 1 THEN parts[1]
  ELSE parts[1] \o sep \o Join(Tail(parts), sep)

RECURSIVE Stringify(_)
\* JSON.stringify(value) for a value that is defined and whose strings hold
\* no character that JSON escapes
Stringify(value) ==
  CASE value.kind = "string" -> <<34>> \o value.chars \o <<34>>
    [] value.kind = "number" ->
         IF value.n < 0 THEN <<45>> \o NatToString(-value.n) ELSE NatToString(value.n)
    [] value.kind = "array" ->
         <<91>> \o Join([i \in 1..Len(value.items) |->
                           IF value.items[i].kind = "undefined" THEN S(<<"n","u","l","l">>)
                           ELSE Stringify(value.items[i])], <<44>>) \o <<93>>
    [] value.kind = "object" ->
         <<123>> \o Join([i \in 1..Len(SelectSeq(value.fields, LAMBDA f : f[2].kind # "undefined")) |->
                            <<34>> \o SelectSeq(value.fields, LAMBDA f : f[2].kind # "undefined")[i][1]
                            \o <<34, 58>>
                            \o Stringify(SelectSeq(value.fields, LAMBDA f : f[2].kind # "undefined")[i][2])],
                         <<44>>) \o <<125>>
    [] OTHER -> S(<<"n","u","l","l">>)

\* attemptBestEffort: the content, or its JSON text, is parsed as free text
BestEffortStep(content) ==
  TextStep(IF content.kind = "string" THEN content.chars ELSE Stringify(content))

\* parseMixed: a body string is parsed as text, any other object as a JSON
\* object; a string that is no JSON is parsed as text
MixedStep(content) ==
  IF content.kind = "string"
  THEN IF ~IsSome(content.json) \/ Get(content.json).kind = "null"
       THEN TextStep(content.chars)
       ELSE IF Property(Get(content.json), S(<<"b","o","d","y">>)).kind = "string"
       THEN TextStep(Property(Get(content.json), S(<<"b","o","d","y">>)).chars)
       ELSE JsonObjectStep(Get(content.json))
  ELSE IF content.kind \in {"object", "array"}
  THEN IF Property(content, S(<<"b","o","d","y">>)).kind = "string"
       THEN TextStep(Property(content, S(<<"b","o","d","y">>)).chars)
       ELSE JsonObjectStep(content)
  ELSE BestEffortStep(content)

\* the branches of parse that are modelled: parseCSV is not, and parseText is
\* for a content that is a string
ParseIsModelled(input, format) ==
  \/ input.content.kind = "array"
  \/ format.type \in {"JSON_OBJECT", "JSON_ARRAY", "TABLE_ROWS", "TABLE_ROW", "MIXED", "UNKNOWN"}
  \/ format.type = "PLAIN_TEXT" /\ input.content.kind = "string"

\* universalParser.parse: an array goes to parseJsonArray whatever was
\* detected, any other content to the parser of the detected format
ParseStep(input, format) ==
  IF input.content.kind = "array" THEN JsonArrayStep(input.content)
  ELSE CASE format.type = "PLAIN_TEXT" -> TextStep(input.content.chars)
         [] format.type = "JSON_OBJECT" -> JsonObjectStep(input.content)
         [] format.type \in {"JSON_ARRAY", "TABLE_ROWS"} -> JsonArrayStep(input.content)
         [] format.type = "TABLE_ROW" -> TableRowStep(input.content)
         [] format.type = "MIXED" -> MixedStep(input.content)
         [] format.type = "UNKNOWN" -> BestEffortStep(input.content)

\* the ParseResult of a step
StepParsed(step) ==
  CASE step.via = "text" -> parseText(step.text)
    [] step.via = "rows" -> ParsedRows(step.rows)
    [] step.via = "row" -> MappedAlone(step.obj, step.tag)
    [] step.via = "failed" -> ParseFailed(step.tag)

parseJsonObject(content) == StepParsed(JsonObjectStep(content))

parseTableRow(content) == StepParsed(TableRowStep(content))

attemptBestEffort(content) == StepParsed(BestEffortStep(content))

parseMixed(content) == StepParsed(MixedStep(content))

parse(input, format) == StepParsed(ParseStep(input, format))

----------------------------------------------------------------------------
(* processingLogger: the audit log *)

maxLogs == 1000

\* typeof content === 'string' ? content : JSON.stringify(content) is a string
\* unless the content is undefined
HasInputString(content) == content.kind # "undefined"

determineInputType(content) ==
  IF content.kind = "string"
  THEN IF OccursAt(trim(content.chars), S(<<"{">>), 1) THEN "json_string"
       ELSE IF OccursAt(trim(content.chars), S(<<"[">>), 1) THEN "json_array_string"
       ELSE "plain_text"
  ELSE IF content.kind = "array" THEN "array"
  ELSE IF content.kind \in {"object", "null"} THEN "object"
  ELSE "unknown"

\* the entry startProcessing creates; id stands for generateId()
NewLogEntry(id, content) ==
  [ id |-> id, inputType |-> determineInputType(content), success |-> FALSE,
    duration |-> None, outputItemsCount |-> None ]

\* Mutant: the cut keeps the last maxLogs entries.
Unshift_KeepOldest(entries, entry) ==
  IF Len(entries) + 1 > maxLogs
  THEN SubSeq(<<entry>> \o entries, 2, maxLogs + 1)
  ELSE <<entry>> \o entries

\* logs.unshift(entry), then the cut to the first maxLogs entries
Unshift(entries, entry) ==
  IF Len(entries) + 1 > maxLogs
  THEN SubSeq(<<entry>> \o entries, 1, maxLogs)
  ELSE <<entry>> \o entries

\* startProcessing(input) on a logger holding entries: inputStr.length throws
\* for an undefined content, before the entry is added
startProcessing(entries, id, input) ==
  IF ~HasInputString(input.content)
  THEN [threw |-> TRUE, message |-> "TypeError", logs |-> entries]
  ELSE [ threw |-> FALSE, entry |-> NewLogEntry(id, input.content),
         logs |-> Unshift(entries, NewLogEntry(id, input.content)) ]

\* getRecentLogs(limit) on a logger holding entries: logs.slice(0, limit)
getRecentLogs(entries, limit) ==
  SubSeq(entries, 1, IF limit < Len(entries) THEN limit ELSE Len(entries))

\* getStats() on a logger holding entries: the counts
getStats(entries) ==
  [ totalProcessed |-> Len(entries),
    successCount |-> Len(SelectSeq(entries, LAMBDA l : l.success)),
    errorCount |-> Len(entries) - Len(SelectSeq(entries, LAMBDA l : l.success)) ]

----------------------------------------------------------------------------
(* inputProcessor: the pipeline *)

RECURSIVE RSum(_)
\* sum of a sequence of rationals
RSum(xs) == IF Len(xs) = 0 THEN RZero ELSE RAdd(xs[1], RSum(Tail(xs)))

\* what the loop of process does with one validated item
ItemFate(validation) ==
  IF validation.isValid /\ IsSome(validation.normalized) THEN "normalized"
  ELSE IF IsSome(validation.partialData) /\ RLt(R(3, 10), validation.confidence)
  THEN "partial"
  ELSE "rejected"

\* the record pushed onto normalizedData for an item that is not rejected
KeptRecord(validation) ==
  IF ItemFate(validation) = "normalized" THEN Get(validation.normalized)
  ELSE Get(validation.partialData)

\* the warnings pushed for one item
ItemWarnings(validation) ==
  CASE ItemFate(validation) = "normalized" ->
         [i \in 1..Len(validation.warnings) |->
            <<"item", Get(validation.normalized).containerNumber,
              validation.warnings[i]>>]
    [] ItemFate(validation) = "partial" ->
         << <<"partialData", Get(validation.partialData).containerNumber,
              validation.confidence>> >>
    [] OTHER -> <<>>

\* the errors pushed for one item
ItemErrors(validation) ==
  IF ItemFate(validation) = "rejected"
  THEN << <<"validationError", validation.errors>> >> ELSE <<>>

\* number of the five counted fields that a normalized record fills
FilledOfFive(record) ==
  (IF Truthy(record.containerNumber) THEN 1 ELSE 0)
  + (IF record.statusCode # "" THEN 1 ELSE 0)
  + (IF Truthy(record.location) THEN 1 ELSE 0)
  + (IF IsSome(record.eta) THEN 1 ELSE 0)
  + (IF IsSome(record.distanceToDestinationKm)
        /\ Get(record.distanceToDestinationKm) # 0 THEN 1 ELSE 0)

AvgCompleteness(normalized) ==
  RMul(RSum([i \in 1..Len(normalized) |-> R(FilledOfFive(normalized[i]), 5)]),
       R(1, IF Len(normalized) > 1 THEN Len(normalized) ELSE 1))

\* the format confidence, degraded by parse errors, by the loss of items, by
\* the number of errors and by the average completeness, then clamped by
\* Math.min(Math.max(confidence, 0), 1)
calculateConfidence(format, parsed, normalized, errors) ==
  RMin(RMax(
    RMul(RMul(RMul(RMul(format.confidence,
      IF Len(parsed.errors) > 0 THEN R(8, 10) ELSE ROne),
      IF Len(parsed.items) > 0 /\ Len(normalized) < Len(parsed.items)
      THEN R(Len(normalized), Len(parsed.items)) ELSE ROne),
      IF Len(errors) > 0 THEN RMax(R(5, 10), R(10 - Len(errors), 10)) ELSE ROne),
      RAdd(R(5, 10), RMul(AvgCompleteness(normalized), R(5, 10)))),
    RZero), ROne)

\* Mutant: the sum of the confidences is divided by one item too many.
AvgValidationConfidence_OffByOne(validationConfidences) ==
  IF Len(validationConfidences) > 0
  THEN RMul(RSum(validationConfidences), R(1, Len(validationConfidences) + 1))
  ELSE RZero

\* the average of the validation confidences, 0 when there is none
AvgValidationConfidence(validationConfidences) ==
  IF Len(validationConfidences) > 0
  THEN RMul(RSum(validationConfidences), R(1, Len(validationConfidences)))
  ELSE RZero

\* the result of the catch branch
FailedResult(message) ==
  [ success |-> FALSE, data |-> None, detectedFormat |-> None,
    errors |-> Some(<< <<"thrown", message>> >>), warnings |-> None,
    confidence |-> RZero ]

ProcessResult(format, normalizedData, errors, warnings, avg, fallback) ==
  [ success |-> Len(normalizedData) > 0,
    data |-> IF Len(normalizedData) > 0 THEN Some(normalizedData) ELSE None,
    detectedFormat |-> Some(format),
    errors |-> IF Len(errors) > 0 THEN Some(errors) ELSE None,
    warnings |-> IF Len(warnings) > 0 THEN Some(warnings) ELSE None,
    confidence |-> IF RLt(RZero, avg) THEN avg ELSE fallback ]

ProcessCollected(format, parsed, normalizedData, validationConfidences, errors, warnings) ==
  ProcessResult(format, normalizedData, errors, warnings,
                AvgValidationConfidence(validationConfidences),
                calculateConfidence(format, parsed, normalizedData, errors))

\* step 3, given the validations of the kept items
ProcessKept(format, parsed, validations, kept) ==
  ProcessCollected(format, parsed,
    [j \in 1..Len(kept) |-> KeptRecord(kept[j])],
    [j \in 1..Len(kept) |-> kept[j].confidence],
    parsed.errors \o Flatten([i \in 1..Len(validations) |-> ItemErrors(validations[i])]),
    (IF RLt(format.confidence, R(3, 10))
     THEN << <<"lowFormatConfidence", format.confidence>> >> ELSE <<>>)
    \o parsed.warnings
    \o Flatten([i \in 1..Len(validations) |-> ItemWarnings(validations[i])]))

\* step 3, given the result of validate for every parsed item
ProcessValidated(format, parsed, validations) ==
  ProcessKept(format, parsed, validations,
              SelectSeq(validations, LAMBDA v : ItemFate(v) # "rejected"))

\* the first item for which validate throws
FirstThrowing(items) ==
  CHOOSE i \in 1..Len(items) :
    ValidateThrows(items[i]) /\ \A j \in 1..(i - 1) : ~ValidateThrows(items[j])

\* the catch branch when validate throws for items[k]: the errors pushed so
\* far are returned with the message, the records collected so far are not
FailedInLoop(parsed, now, k) ==
  [ FailedResult("TypeError") EXCEPT !.errors =
      Some(parsed.errors
           \o Flatten([i \in 1..(k - 1) |-> ItemErrors(validate(parsed.items[i], now))])
           \o << <<"thrown", "TypeError">> >>) ]

\* steps 1 and 2 have run: a throw of either, or of validate in the loop of
\* step 3, ends in the catch branch
ProcessParsed(format, parsed, now) ==
  IF HasThrown(format) THEN FailedResult(format.message)
  ELSE IF HasThrown(parsed) THEN FailedResult(parsed.message)
  ELSE IF \E i \in 1..Len(parsed.items) : ValidateThrows(parsed.items[i])
  THEN FailedInLoop(parsed, now, FirstThrowing(parsed.items))
  ELSE ProcessValidated(format, parsed,
         [i \in 1..Len(parsed.items) |-> validate(parsed.items[i], now)])

\* the try block of process and its catch branch, when universalParser.parse
\* answers parsed and the clock reads now
ProcessTried(input, parsed, now) == ProcessParsed(detect(input), parsed, now)

\* the promise of process is rejected: the exception left the function
Rejected(message) == [rejected |-> TRUE, message |-> message]

\* step 4 and the catch branch write to the entry that startProcessing made
FinalizedEntry(entry, result) ==
  [ entry EXCEPT !.duration = Some(0), !.success = result.success,
      !.outputItemsCount =
        IF ~IsSome(result.detectedFormat) THEN None
        ELSE IF IsSome(result.data) THEN Some(Len(Get(result.data))) ELSE Some(0) ]

\* the audit log holds the entry object itself: it sees what process writes
ReplaceEntry(entries, entry) ==
  [i \in 1..Len(entries) |-> IF entries[i].id = entry.id THEN entry ELSE entries[i]]

\* the result with its processingLog
LoggedResult(result, entry) ==
  [ rejected |-> FALSE, success |-> result.success, data |-> result.data,
    detectedFormat |-> result.detectedFormat, errors |-> result.errors,
    warnings |-> result.warnings, confidence |-> result.confidence,
    processingLog |-> entry ]

\* startProcessing runs before the try: its exception rejects the promise
ProcessLogged(begun, result) ==
  IF HasThrown(begun) THEN [result |-> Rejected(begun.message), logs |-> begun.logs]
  ELSE [ result |-> LoggedResult(result, FinalizedEntry(begun.entry, result)),
         logs |-> ReplaceEntry(begun.logs, FinalizedEntry(begun.entry, result)) ]

\* process(input) on a processor whose audit log holds entries: the settled
\* promise and the audit log afterwards
process(entries, id, input, parsed, now) ==
  ProcessLogged(startProcessing(entries, id, input), ProcessTried(input, parsed, now))

RECURSIVE BatchBegun(_, _, _)
\* inputs.map(input => this.process(input)): every call runs up to its await
\* before the next one starts, so startProcessing is called for the inputs in
\* their order, on the one logger of the processor
BatchBegun(entries, id, inputs) ==
  IF Len(inputs) = 0 THEN <<>>
  ELSE <<startProcessing(entries, id, Head(inputs))>>
       \o BatchBegun(startProcessing(entries, id, Head(inputs)).logs,
                     IF HasThrown(startProcessing(entries, id, Head(inputs))) THEN id ELSE id + 1,
                     Tail(inputs))

\* the promise of one process call after its synchronous part
BegunPromise(begun) ==
  IF HasThrown(begun) THEN [state |-> "rejected", message |-> begun.message]
  ELSE [state |-> "pending", entry |-> begun.entry]

\* the promise of a process call that has run to its end
FulfilledPromise(result) == [state |-> "fulfilled", result |-> result]

\* a summary that counts every result with success = true as successful
BatchSummary_AllSuccessful(results) ==
  [ total |-> Len(results),
    successful |-> Len(SelectSeq(results, LAMBDA r : r.success)),
    failed |-> Len(SelectSeq(results, LAMBDA r : ~r.success)),
    partialSuccess |-> Len(SelectSeq(results, LAMBDA r : r.success /\ Truthy(r.warnings))) ]

\* the summary that processBatch counts over the results
BatchSummary(results) ==
  [ total |-> Len(results),
    successful |-> Len(SelectSeq(results, LAMBDA r : r.success /\ ~Truthy(r.warnings))),
    failed |-> Len(SelectSeq(results, LAMBDA r : ~r.success)),
    partialSuccess |-> Len(SelectSeq(results, LAMBDA r : r.success /\ Truthy(r.warnings))) ]

\* Promise.all is fulfilled with the results in the order of the inputs
BatchResolved(results) ==
  [rejected |-> FALSE, results |-> results, summary |-> BatchSummary(results)]

----------------------------------------------------------------------------
(* Inputs of the location resolver *)

CanonicalNames == {ALL_LOCATIONS[i].name : i \in 1..Len(ALL_LOCATIONS)}

FreeTextLocations ==
  {
    <<>>,   \* ""
    <<32, 32, 32>>,   \* "   "
    <<1089, 1090, 46, 32, 1058, 1072, 1081, 1096, 1077, 1090>>,   \* "ст. Тайшет"
    <<1089, 1090, 1072, 1085, 1094, 1080, 1103, 32, 1058, 1072, 1081, 1096, 1077, 1090, 45, 1057, 1086, 1088, 1090>>,   \* "станция Тайшет-Сорт"
    <<1057, 1058, 1040, 1053, 1062, 1048, 1048, 32, 1047, 1080, 1084, 1072>>,   \* "СТАНЦИИ Зима"
    <<1087, 1086, 1088, 1090, 32, 1047, 1072, 1088, 1091, 1073, 1080, 1085, 1086>>,   \* "порт Зарубино"
    <<80, 111, 114, 116, 32, 75, 108, 97, 105, 112, 101, 100, 97>>,   \* "Port Klaipeda"
    <<1058, 1072, 1081, 1096, 1077, 1090>>,   \* "Тайшет"
    <<1089, 1082, 1083, 1072, 1076, 32, 53>>,   \* "склад 5"
    <<1090, 1072, 1084, 1086, 1078, 1077, 1085, 1085, 1099, 1081, 32, 1087, 1086, 1089, 1090>>,   \* "таможенный пост"
    <<99, 105, 116, 121, 32, 99, 101, 110, 116, 101, 114>>,   \* "city center"
    <<1075, 46, 32, 1042, 1083, 1072, 1076, 1080, 1074, 1086, 1089, 1090, 1086, 1082, 44, 32, 1087, 1088, 1080, 1095, 1072, 1083, 32, 51>>,   \* "г. Владивосток, причал 3"
    <<83, 72, 65, 78, 71, 72, 65, 73>>,   \* "SHANGHAI"
    <<1089, 1090, 46, 32, 32>>,   \* "ст.  "
    <<1087, 1086, 1088, 1090>>,   \* "порт"
    <<1087, 1086, 1088, 1090, 32, 32, 53>>,   \* "порт  5"
    <<1078, 47, 1076, 32, 1090, 1091, 1087, 1080, 1082>>,   \* "ж/д тупик"
    <<32, 1090, 1072, 1081, 1096, 1077, 1090, 32>>    \* " тайшет "
  }

LocationInputs == CanonicalNames \cup FreeTextLocations

----------------------------------------------------------------------------
(* Inputs of the format detector and of the pipeline *)

\* { container: 'MSKU1234565', status: 'ON_RAIL', location: 'Гончарово', distance: 1200, eta: '2031-01-15' }
RowFull ==
  JObj(<< <<S(<<"c","o","n","t","a","i","n","e","r">>), JStr(S(<<"M","S","K","U","1","2","3","4","5","6","5">>))>>,
          <<S(<<"s","t","a","t","u","s">>), JStr(S(<<"O","N","_","R","A","I","L">>))>>,
          <<S(<<"l","o","c","a","t","i","o","n">>), JStr(<<1043, 1086, 1085, 1095, 1072, 1088, 1086, 1074, 1086>>)>>,
          <<S(<<"d","i","s","t","a","n","c","e">>), JNum(1200)>>,
          <<S(<<"e","t","a">>), JStr(S(<<"2","0","3","1","-","0","1","-","1","5">>))>> >>)

\* { containerNumber: 'MSC01234560', state: 'в порту', location: 'порт Зарубино' }
RowTypo ==
  JObj(<< <<S(<<"c","o","n","t","a","i","n","e","r","N","u","m","b","e","r">>), JStr(S(<<"M","S","C","0","1","2","3","4","5","6","0">>))>>,
          <<S(<<"s","t","a","t","e">>), JStr(<<1074, 32, 1087, 1086, 1088, 1090, 1091>>)>>,
          <<S(<<"l","o","c","a","t","i","o","n">>), JStr(<<1087, 1086, 1088, 1090, 32, 1047, 1072, 1088, 1091, 1073, 1080, 1085, 1086>>)>> >>)

\* { status: 'DELIVERED', location: 'Москва', eta: 'not a date' }
RowNoId ==
  JObj(<< <<S(<<"s","t","a","t","u","s">>), JStr(S(<<"D","E","L","I","V","E","R","E","D">>))>>,
          <<S(<<"l","o","c","a","t","i","o","n">>), JStr(<<1052, 1086, 1089, 1082, 1074, 1072>>)>>,
          <<S(<<"e","t","a">>), JStr(S(<<"n","o","t"," ","a"," ","d","a","t","e">>))>> >>)

\* { container: '12345', status: 'something', distance: -5 }
RowBadId ==
  JObj(<< <<S(<<"c","o","n","t","a","i","n","e","r">>), JStr(S(<<"1","2","3","4","5">>))>>,
          <<S(<<"s","t","a","t","u","s">>), JStr(S(<<"s","o","m","e","t","h","i","n","g">>))>>,
          <<S(<<"d","i","s","t","a","n","c","e">>), JNum(-5)>> >>)

\* {  }
RowEmpty ==
  JObj(<<>>)

\* { eta: '15.01.2031' }
RowEtaOnly ==
  JObj(<< <<S(<<"e","t","a">>), JStr(S(<<"1","5",".","0","1",".","2","0","3","1">>))>> >>)

\* { foo: 'bar' }
RowOther ==
  JObj(<< <<S(<<"f","o","o">>), JStr(S(<<"b","a","r">>))>> >>)

\* { container: 1234567, status: 'ON_RAIL', location: 'Гончарово' }
RowNumberId ==
  JObj(<< <<S(<<"c","o","n","t","a","i","n","e","r">>), JNum(1234567)>>,
          <<S(<<"s","t","a","t","u","s">>), JStr(S(<<"O","N","_","R","A","I","L">>))>>,
          <<S(<<"l","o","c","a","t","i","o","n">>), JStr(<<1043, 1086, 1085, 1095, 1072, 1088, 1086, 1074, 1086>>)>> >>)

\* { container: 'TCLU1234568', status: 5 }
RowNumberStatus ==
  JObj(<< <<S(<<"c","o","n","t","a","i","n","e","r">>), JStr(S(<<"T","C","L","U","1","2","3","4","5","6","8">>))>>,
          <<S(<<"s","t","a","t","u","s">>), JNum(5)>> >>)

\* { container: 'TCLU1234568', status: 'IN_PORT', eta: 'soon' }
RowBadEta ==
  JObj(<< <<S(<<"c","o","n","t","a","i","n","e","r">>), JStr(S(<<"T","C","L","U","1","2","3","4","5","6","8">>))>>,
          <<S(<<"s","t","a","t","u","s">>), JStr(S(<<"I","N","_","P","O","R","T">>))>>,
          <<S(<<"e","t","a">>), JStr(S(<<"s","o","o","n">>))>> >>)

\* { container: 'MSKU1234565', status: 'ON_RAIL', date: '32.13.2031' }
RowBadEvent ==
  JObj(<< <<S(<<"c","o","n","t","a","i","n","e","r">>), JStr(S(<<"M","S","K","U","1","2","3","4","5","6","5">>))>>,
          <<S(<<"s","t","a","t","u","s">>), JStr(S(<<"O","N","_","R","A","I","L">>))>>,
          <<S(<<"d","a","t","e">>), JStr(S(<<"3","2",".","1","3",".","2","0","3","1">>))>> >>)

\* { container: '12345', status: 'DELIVERED', location: 'Гончарово' }
RowInvalidId ==
  JObj(<< <<S(<<"c","o","n","t","a","i","n","e","r">>), JStr(S(<<"1","2","3","4","5">>))>>,
          <<S(<<"s","t","a","t","u","s">>), JStr(S(<<"D","E","L","I","V","E","R","E","D">>))>>,
          <<S(<<"l","o","c","a","t","i","o","n">>), JStr(<<1043, 1086, 1085, 1095, 1072, 1088, 1086, 1074, 1086>>)>> >>)

RowInputs == {RowFull, RowTypo, RowNoId, RowBadId, RowEmpty, RowEtaOnly, RowOther}

PlainText == JStr(<<1050, 1086, 1085, 1090, 1077, 1081, 1085, 1077, 1088, 32, 77, 83, 75, 85, 49, 50, 51, 52, 53, 54, 53, 32, 1087, 1088, 1080, 1073, 1099, 1083, 32, 1085, 1072, 32, 1089, 1090, 46, 32, 1043, 1086, 1085, 1095, 1072, 1088, 1086, 1074, 1086>>)
CsvText ==
  JStr(<<99, 111, 110, 116, 97, 105, 110, 101, 114, 59, 115, 116, 97, 116, 117, 115, 59, 108, 111, 99, 97, 116, 105, 111, 110, 10, 77, 83, 75, 85, 49, 50, 51, 52, 53, 54, 53, 59, 79, 78, 95, 82, 65, 73, 76, 59, 1043, 1086, 1085, 1095, 1072, 1088, 1086, 1074, 1086, 10, 84, 67, 76, 85, 49, 50, 51, 52, 53, 54, 56, 59, 73, 78, 95, 80, 79, 82, 84, 59, 1042, 1083, 1072, 1076, 1080, 1074, 1086, 1089, 1090, 1086, 1082>>)
BrokenJson == JStr(S(<<"{","b","r","o","k","e","n">>))
EmptyText == JStr(<<>>)
\* the JSON text of an object and of an array (JSON.parse gives the value back)
JsonObjectText == JText(S(<<"{",".",".",".","}">>), RowFull)
JsonArrayText == JText(S(<<" ","[",".",".",".","]">>), JArr(<<RowFull, RowNoId>>))
JsonWrappedText ==
  JText(S(<<"{","r","o","w","s","}">>), JObj(<< <<S(<<"r","o","w","s">>), JArr(<<RowTypo>>)>> >>))

StringContents ==
  {PlainText, CsvText, BrokenJson, EmptyText, JsonObjectText, JsonArrayText, JsonWrappedText}

ArrayElements == RowInputs \cup {PlainText, JNum(7), JNull, JArr(<<>>)}

\* the longest array content
MaxRows == 2

ArrayContents ==
  {JArr(<<>>)} \cup {JArr(<<a>>) : a \in ArrayElements}
  \cup {JArr(items) : items \in [1..MaxRows -> ArrayElements]}

ObjectContents ==
  RowInputs
  \cup {JObj(<< <<S(<<"r","o","w","s">>), a>> >>) : a \in {JArr(<<>>), JArr(<<RowFull, RowNoId>>), JStr(<<>>)}}
  \cup {JObj(<< <<S(<<"d","a","t","a">>), a>> >>) : a \in {JArr(<<RowTypo>>), JArr(<<PlainText>>)}}
  \cup {JObj(<< <<S(<<"b","o","d","y">>), PlainText>> >>),
        JObj(<< <<S(<<"s","t","a","t","u","s">>), JStr(S(<<"x">>))>>,
                <<S(<<"d","a","t","a">>), JArr(<<RowFull>>)>> >>)}

OtherContents == {JNull, JUndefined, JNum(42)}

Hints == {None, Some("text"), Some("json"), Some("csv"), Some("table"), Some("api")}

RawInputs ==
  {[content |-> c, hint |-> h] :
     c \in StringContents \cup ArrayContents \cup ObjectContents \cup OtherContents,
     h \in Hints}

----------------------------------------------------------------------------
(* Inputs of the data validator *)

ItemContainers ==
  {
    None,   \* absent
    Some(S(<<"M","S","K","U","1","2","3","4","5","6","5">>)),   \* "MSKU1234565"
    Some(S(<<"M","S","K","U","1","2","3","4","5","6","0">>)),   \* "MSKU1234560"
    Some(S(<<"M","S","C","0","1","2","3","4","5","6","0">>)),   \* "MSC01234560"
    Some(S(<<"t","c","l","u"," ","1","2","3","4","5","6">>)),   \* "tclu 123456"
    Some(S(<<"1","2","3","4","5">>)),   \* "12345"
    Some(<<>>)   \* ""
  }

ItemStatuses ==
  {
    None,   \* absent
    Some(S(<<"D","E","L","I","V","E","R","E","D">>)),   \* "DELIVERED"
    Some(S(<<"O","N","_","R","A","I","L">>)),   \* "ON_RAIL"
    Some(S(<<"i","n"," ","p","o","r","t">>)),   \* "in port"
    Some(S(<<"t","r","a","n","s","i","t">>)),   \* "transit"
    Some(S(<<"o","n","-","s","h","i","p">>)),   \* "on-ship"
    Some(S(<<"F","L","Y","I","N","G">>)),   \* "FLYING"
    Some(S(<<"U","N","K","N","O","W","N">>))   \* "UNKNOWN"
  }

ItemLocations ==
  {
    None,   \* absent
    Some(<<1043, 1086, 1085, 1095, 1072, 1088, 1086, 1074, 1086>>),   \* "Гончарово"
    Some(<<1087, 1086, 1088, 1090, 32, 1064, 1072, 1085, 1093, 1072, 1081>>),   \* "порт Шанхай"
    Some(<<1052, 1086, 1089, 1082, 1074, 1072>>),   \* "Москва"
    Some(<<1059, 1088, 1102, 1087, 1080, 1085, 1089, 1082>>),   \* "Урюпинск"
    Some(<<1089, 1082, 1083, 1072, 1076, 32, 1056, 1086, 1084, 1072, 1096, 1082, 1072>>),   \* "склад Ромашка"
    Some(<<1089, 1090, 46, 32, 1058, 1072, 1081, 1096, 1077, 1090>>),   \* "ст. Тайшет"
    Some(S(<<" "," "," ">>))   \* "   "
  }

ItemEtas ==
  {
    None,   \* absent
    Some(S(<<"0","1",".","0","1",".","2","0","2","4">>)),   \* "01.01.2024"
    Some(S(<<"3","1",".","1","2",".","2","0","3","0">>)),   \* "31.12.2030"
    Some(S(<<"3","1",".","0","2",".","2","0","3","0">>)),   \* "31.02.2030"
    Some(S(<<"1","5",".","0","1",".","2","5">>)),   \* "15.01.25"
    Some(S(<<"3","2",".","1","3",".","2","0","2","5">>)),   \* "32.13.2025"
    Some(S(<<"2","0","1","9","-","0","5","-","0","5">>)),   \* "2019-05-05"
    Some(S(<<"n","o","t"," ","a"," ","d","a","t","e">>)),   \* "not a date"
    Some(S(<<"2","0","2","4","-","0","6","-","0","1","T","1","0",":","3","0",":","0","0",".","0","0","0","Z">>)),   \* "2024-06-01T10:30:00.000Z"
    Some(S(<<"2","0","3","1","-","0","1","-","1","5","T","0","0",":","0","0",":","0","0","Z">>))   \* "2031-01-15T00:00:00Z"
  }

ItemDistances ==
  { None, Some(R(-5, 1)), Some(R(0, 1)), Some(R(1200, 1)), Some(R(25, 2)),
    Some(R(15001, 1)), Some(R(20000, 1)), Some(R(20001, 1)) }

ItemOrigins == { None, Some(<<1064, 1072, 1085, 1093, 1072, 1081>>) }   \* "Шанхай"

\* None, "MSKU1234565", "MSC01234560"
SelectedContainers == {None, Some(S(<<"M","S","K","U","1","2","3","4","5","6","5">>)), Some(S(<<"M","S","C","0","1","2","3","4","5","6","0">>))}
\* None, "DELIVERED", "ON_RAIL"
SelectedStatuses == {None, Some(S(<<"D","E","L","I","V","E","R","E","D">>)), Some(S(<<"O","N","_","R","A","I","L">>))}
\* None, "Гончарово", "Урюпинск"
SelectedLocations == {None, Some(<<1043, 1086, 1085, 1095, 1072, 1088, 1086, 1074, 1086>>), Some(<<1059, 1088, 1102, 1087, 1080, 1085, 1089, 1082>>)}

\* every container number with every status and location; then, for a
\* selection of those, every distance, ETA and origin; then items that carry
\* a location type or an event time of their own
ParsedItems ==
  { ParsedItem(c, s, l, None, None, None, None) :
      c \in ItemContainers, s \in ItemStatuses, l \in ItemLocations }
  \cup
  { ParsedItem(c, s, l, None, d, e, o) :
      c \in SelectedContainers, s \in SelectedStatuses, l \in SelectedLocations,
      d \in ItemDistances, e \in ItemEtas, o \in ItemOrigins }
  \cup
  { [ParsedItem(c, s, None, Some(t), None, None, None)
       EXCEPT !.eventTime = v] :
      c \in SelectedContainers, s \in ItemStatuses, t \in {"CITY", "PORT"},
      v \in {None, Some(S(<<"0","2",".","1","1",".","2","0","2","6">>))} }

\* the instants at which validate is called
Nows == { <<2026, 11, 2, 43200>>, <<2031, 6, 1, 0>> }

----------------------------------------------------------------------------
(* Inputs of the parser's confidence and of the pipeline *)

\* the constructors of ParsedItem: extractDataFromText, mapTableRow and
\* mapCSVRowWithoutHeaders
ExtractionKinds == {"text", "row", "csv"}

\* the fields an extraction can fill, each present or absent
ExtractedItems ==
  { [ParsedItem(c, s, l, None, d, e, o) EXCEPT !.destination = t] :
      c \in SelectedContainers,
      s \in {UnknownStatus, Some(S(<<"O","N","_","R","A","I","L">>))},
      l \in SelectedLocations,
      d \in {None, Some(R(0, 1)), Some(R(1200, 1))},
      e \in {None, Some(S(<<"3","1",".","1","2",".","2","0","3","0">>))},
      o \in ItemOrigins, t \in ItemOrigins }

\* a complete item; an item with a look-alike typo and an unknown place; an
\* item whose number has no valid shape; an item with a status only; an item
\* with nothing
ProcessItems ==
  { ParsedItem(Some(S(<<"M","S","K","U","1","2","3","4","5","6","5">>)), Some(S(<<"D","E","L","I","V","E","R","E","D">>)), Some(<<1043, 1086, 1085, 1095, 1072, 1088, 1086, 1074, 1086>>), None, Some(R(0, 1)), Some(S(<<"3","1",".","1","2",".","2","0","3","0">>)), Some(<<1064, 1072, 1085, 1093, 1072, 1081>>)),
    ParsedItem(Some(S(<<"M","S","C","0","1","2","3","4","5","6","0">>)), Some(S(<<"O","N","_","R","A","I","L">>)), Some(<<1059, 1088, 1102, 1087, 1080, 1085, 1089, 1082>>), None, None, None, None),
    ParsedItem(Some(S(<<"1","2","3","4","5">>)), Some(S(<<"D","E","L","I","V","E","R","E","D">>)), Some(<<1043, 1086, 1085, 1095, 1072, 1088, 1086, 1074, 1086>>), None, None, None, None),
    ParsedItem(None, Some(S(<<"O","N","_","R","A","I","L">>)), None, None, None, None, None),
    ParsedItem(None, None, None, None, None, None, None) }

\* the longest list of items that parse answers with
MaxItems == 2

ItemLists == UNION {[1..n -> ProcessItems] : n \in 0..MaxItems}

\* the errors and warnings of a parse: none, one error, one warning
ParseNotes ==
  { [errors |-> <<>>, warnings |-> <<>>],
    [errors |-> << <<"parseError">> >>, warnings |-> <<>>],
    [errors |-> <<>>, warnings |-> << <<"parseWarning">> >>] }

ParseResult(items, notes) ==
  [ threw |-> FALSE, items |-> items, errors |-> notes.errors,
    warnings |-> notes.warnings ]

\* what universalParser.parse can answer: a ParseResult, or a throw
ParseOutcomes ==
  {ParseResult(items, notes) : items \in ItemLists, notes \in ParseNotes}
  \cup {Threw("TypeError")}

\* the rows of the arrays that process is called with: complete rows, a row
\* without a number, a row whose number has no valid shape, a row whose
\* with and without a status and a place that are known, a row whose number
\* or status is a JSON number, rows with a date that cannot be read
ProcessRows ==
  {RowFull, RowTypo, RowNoId, RowBadId, RowInvalidId, RowNumberId, RowNumberStatus, RowBadEta,
   RowBadEvent}

ProcessArrays ==
  {JArr(<<>>), JArr(<<JNum(7)>>)}
  \cup UNION {{JArr(rows) : rows \in [1..n -> ProcessRows]} : n \in 1..MaxRows}

\* texts that mention containers: one container with six digits and with
\* seven, a spelling with a digit for a letter and the corrected spelling,
\* one number twice (once with a space), and two containers
MentionTexts ==
  { S(<<"M","S","K","U","1","2","3","4","5","6"," ","M","S","K","U","1","2","3","4","5","6","5">>),
    S(<<"M","S","C","0","1","2","3","4","5","6","0"," ","M","S","C","O","1","2","3","4","5","6","0">>),
    S(<<"M","S","K","U"," ","1","2","3","4","5","6","5"," ","M","S","K","U","1","2","3","4","5","6","5">>),
    S(<<"M","S","K","U","1","2","3","4","5","6","5"," ","T","C","L","U","1","2","3","4","5","6","8">>) }

\* a text, a CSV text, the empty text, an undefined content with the hint
\* "json" and without a hint, a null, the arrays, and the texts that mention
\* containers
ProcessInputs ==
  { [content |-> PlainText, hint |-> None],
    [content |-> CsvText, hint |-> None],
    [content |-> EmptyText, hint |-> None],
    [content |-> JUndefined, hint |-> Some("json")],
    [content |-> JUndefined, hint |-> None],
    [content |-> JNull, hint |-> None] }
  \cup {[content |-> a, hint |-> None] : a \in ProcessArrays}
  \cup {[content |-> JStr(text), hint |-> None] : text \in MentionTexts}

\* the answers of parse for a detected format: any answer where the parser
\* is not modelled
ParseOutcomesFor(input, format) ==
  IF ParseIsModelled(input, format) THEN {parse(input, format)} ELSE ParseOutcomes

\* the answers of parse that are possible for an input: an array goes to
\* parseJsonArray, parse is not reached for an undefined content, a null
\* is read as the text "null", which gives one item without a container
\* number, a status or a place, a text goes to parseText, and a CSV text
\* can have any answer
ParseOutcomesOf(input) ==
  IF input.content = JUndefined
  THEN {ParseResult(<<>>, [errors |-> <<>>, warnings |-> <<>>])}
  ELSE IF input.content = JNull
  THEN {ParseResult(<<ParsedItem(None, UnknownStatus, None, None, None, None, None)>>,
                    [errors |-> <<>>, warnings |-> << <<"partialData">> >>])}
  ELSE ParseOutcomesFor(input, detect(input))

----------------------------------------------------------------------------
(* Inputs of the text branch *)

\* every keyword of the status table
StatusKeywords ==
  UNION {{statusMap[i].keywords[k] : k \in 1..Len(statusMap[i].keywords)} : i \in 1..Len(statusMap)}

\* a sentence in capitals, a sentence with two keywords, a text with none
StatusSentences ==
  { S(<<"C","o","n","t","a","i","n","e","r"," ","U","N","L","O","A","D","E","D"," ","a","t"," ","t","e","r","m","i","n","a","l">>),
    <<1050, 1086, 1085, 1090, 1077, 1081, 1085, 1077, 1088, 32, 1088, 1072, 1089, 1090, 1072, 1084, 1086, 1078, 1077, 1085, 44, 32, 1086, 1090, 1075, 1088, 1091, 1078, 1077, 1085, 32, 1085, 1072, 32, 1078, 1076>>,
    S(<<"h","e","l","l","o">>),
    <<>> }

StatusTexts == StatusKeywords \cup StatusSentences

\* texts for parseText: without a signal (one of them empty), with a status
\* only, with a place only, with both, and with a container number; none of
\* them carries a distance, a date, an origin or a destination
FreeTexts ==
  { S(<<"h","e","l","l","o">>),
    <<>>,
    <<1075, 1088, 1091, 1079, 32, 1079, 1072, 1076, 1077, 1088, 1078, 1072, 1085>>,
    S(<<"i","n"," ","p","o","r","t">>),
    S(<<"C","o","n","t","a","i","n","e","r"," ","U","N","L","O","A","D","E","D"," ","a","t"," ","t","e","r","m","i","n","a","l">>),
    S(<<"p","o","r","t"," ","V","o","s","t","o","c","h","n","y">>),
    S(<<"i","n"," ","p","o","r","t"," ","V","o","s","t","o","c","h","n","y">>),
    PlainText.chars }

----------------------------------------------------------------------------
(* Inputs of the identifier validator *)

OwnerInputs ==
  { S(<<"M","S","C","U">>), S(<<"M","S","K","U">>), S(<<"T","C","L","U">>),
    S(<<"A","B","C","D">>), S(<<"O","O","L","U">>), S(<<"B","I","S","U">>),
    S(<<"M","S","C","0">>), S(<<"M","5","K","U">>), S(<<"0","0","L","U">>),
    S(<<"8","1","S","U">>), S(<<"B","1","S","U">>), S(<<"8","I","S","U">>),
    S(<<"m","s","c","u">>), S(<<"M","S","C","9">>),
    S(<<"M","S","-","U">>), S(<<"M","S","C">>) }

SerialInputs ==
  { S(<<"1","2","3","4","5","6">>), S(<<"0","0","0","0","0","0">>),
    S(<<"3","0","5","9","2","1">>), S(<<"1","2","3","4","5","O">>),
    S(<<"I","2","3","4","S","B">>), S(<<"1","L","3","4","5","6">>),
    S(<<" ","1","2","3","4","5","6">>), S(<<"1","2","3","A","5","6">>),
    S(<<"1","2","3","4","5">>) }

CheckInputs ==
  { <<>>, S(<<"0">>), S(<<"1">>), S(<<"2">>), S(<<"3">>), S(<<"4">>), S(<<"5">>),
    S(<<"6">>), S(<<"7">>), S(<<"8">>), S(<<"9">>), S(<<"O">>), S(<<"X">>),
    S(<<"1","2">>), S(<<"-","7">>) }

\* owner parts that together hold every letter, and serial numbers
CodeOwners ==
  { S(<<"A","B","C","D">>), S(<<"E","F","G","H">>), S(<<"I","J","K","L">>), S(<<"M","N","O","P">>),
    S(<<"Q","R","S","T">>), S(<<"U","V","W","X">>), S(<<"Y","Z","A","B">>), S(<<"M","S","K","U">>),
    S(<<"T","C","L","U">>), S(<<"Z","Z","Z","Z">>) }

CodeSerials ==
  { S(<<"1","2","3","4","5","6">>), S(<<"0","0","0","0","0","0">>), S(<<"9","9","9","9","9","9">>),
    S(<<"3","0","5","9","2","1">>), S(<<"1","2","3","4","5","0">>), S(<<"0","0","0","0","0","1">>),
    S(<<"1","0","0","0","0","0">>), S(<<"4","7","3","8","2","9">>), S(<<"6","5","0","4","3","2">>),
    S(<<"8","8","8","8","8","8">>), S(<<"0","1","0","1","0","1">>), S(<<"2","4","6","8","1","3">>) }

\* codes of four letters and six digits
CodeInputs == {o \o n : o \in CodeOwners, n \in CodeSerials}

ContainerInputs ==
  { o \o s \o c : o \in OwnerInputs, s \in SerialInputs, c \in CheckInputs }
  \cup { <<>>, S(<<" ">>), S(<<"1","2","3">>) }

----------------------------------------------------------------------------
(* State machine: each step is one call of a pipeline component *)

NoCall == [op |-> "none"]

\* new InputProcessor(): nothing is in progress and the audit log is empty
Init ==
  /\ pc = "idle"
  /\ call = NoCall
  /\ logs = <<>>
  /\ started = 0
  /\ sharedLogs = <<>>

CallValidateContainerNumber ==
  /\ pc = "idle"
  /\ \E input \in ContainerInputs :
       call' = [ op |-> "validateContainerNumber", input |-> input,
                 out |-> validateContainerNumber(input) ]
  /\ pc' = "done"
  /\ UNCHANGED <<logs, started, sharedLogs>>

CallFindLocation ==
  /\ pc = "idle"
  /\ \E text \in LocationInputs :
       call' = [ op |-> "findLocation", input |-> text, out |-> findLocation(text) ]
  /\ pc' = "done"
  /\ UNCHANGED <<logs, started, sharedLogs>>

CallValidate ==
  /\ pc = "idle"
  /\ \E item \in ParsedItems, now \in Nows :
       call' = [ op |-> "validate", input |-> item, now |-> now,
                 out |-> validate(item, now) ]
  /\ pc' = "done"
  /\ UNCHANGED <<logs, started, sharedLogs>>

CallDetect ==
  /\ pc = "idle"
  /\ \E input \in RawInputs :
       call' = [ op |-> "detect", input |-> input, out |-> detect(input) ]
  /\ pc' = "done"
  /\ UNCHANGED <<logs, started, sharedLogs>>

CallExtractionConfidence ==
  /\ pc = "idle"
  /\ \E kind \in ExtractionKinds, item \in ExtractedItems :
       call' = [ op |-> "extractionConfidence",
                 input |-> [kind |-> kind, item |-> item],
                 out |-> extractionConfidence(kind, item) ]
  /\ pc' = "done"
  /\ UNCHANGED <<logs, started, sharedLogs>>

CallCalculateCheckDigit ==
  /\ pc = "idle"
  /\ \E code \in CodeInputs :
       call' = [op |-> "calculateCheckDigit", input |-> code, out |-> calculateCheckDigit(code)]
  /\ pc' = "done"
  /\ UNCHANGED <<logs, started, sharedLogs>>

CallExtractStatus ==
  /\ pc = "idle"
  /\ \E text \in StatusTexts :
       call' = [op |-> "extractStatus", input |-> text, out |-> extractStatus(text)]
  /\ pc' = "done"
  /\ UNCHANGED <<logs, started, sharedLogs>>

CallParseText ==
  /\ pc = "idle"
  /\ \E text \in FreeTexts :
       call' = [op |-> "parseText", input |-> text, out |-> parseText(text)]
  /\ pc' = "done"
  /\ UNCHANGED <<logs, started, sharedLogs>>

\* the rows that a wrapping object holds
WrappedRows == {RowFull, RowTypo, RowNoId}

\* rows of up to MaxRows row objects
WrappedArrays == UNION {{JArr(rows) : rows \in [1..n -> WrappedRows]} : n \in 0..MaxRows}

\* { rows: [...] }, { data: [...] } and the same with a field that is no
\* table field or with one that is: fewer than two table-like keys
Wrappers ==
  UNION {{ JObj(<< <<key, a>> >>),
           JObj(<< <<S(<<"s","o","u","r","c","e">>), JStr(S(<<"a","p","i">>))>>, <<key, a>> >>),
           JObj(<< <<key, a>>, <<S(<<"s","t","a","t","u","s">>), JStr(S(<<"o","k">>))>> >>) } :
         key \in {S(<<"r","o","w","s">>), S(<<"d","a","t","a">>)}, a \in WrappedArrays}

\* an object with a body, one table row, an object with one table field, an
\* object that wraps its rows under another name, and a text
OtherParsed ==
  { JObj(<< <<S(<<"b","o","d","y">>), PlainText>> >>), RowFull, RowEtaOnly,
    JObj(<< <<S(<<"c","o","n","t","a","i","n","e","r","s">>), JArr(<<RowFull, RowTypo>>)>> >>),
    PlainText, JArr(<<RowFull>>) }

\* the inputs of parse: every content as an object and as its JSON text,
\* without a hint and with the hints json, table and api
ParseInputs ==
  { [content |-> c, hint |-> h] :
      c \in Wrappers \cup OtherParsed \cup {JText(Stringify(w), w) : w \in Wrappers},
      h \in {None, Some("json"), Some("table"), Some("api")} }

\* universalParser.parse(input, formatDetector.detect(input)), steps 1 and 2
\* of process
ParseCalled(input, format) ==
  /\ ~HasThrown(format)
  /\ ParseIsModelled(input, format)
  /\ call' = [ op |-> "parse", input |-> input, format |-> format,
               out |-> parse(input, format) ]

CallParse ==
  /\ pc = "idle"
  /\ \E input \in ParseInputs : ParseCalled(input, detect(input))
  /\ pc' = "done"
  /\ UNCHANGED <<logs, started, sharedLogs>>

\* process has settled with p.result and left the audit log p.logs
ProcessSettled(input, parsed, now, p) ==
  /\ call' = [ op |-> "process", input |-> input, parsed |-> parsed,
               now |-> now, out |-> p.result ]
  /\ logs' = p.logs
  /\ started' = IF p.result.rejected THEN started ELSE started + 1
  /\ UNCHANGED sharedLogs

CallProcess ==
  /\ pc = "idle"
  /\ \E input \in ProcessInputs, now \in Nows :
       \E parsed \in ParseOutcomesOf(input) :
         ProcessSettled(input, parsed, now,
                        process(logs, started + 1, input, parsed, now))
  /\ pc' = "done"

\* the caller has its answer; the next call is made on a new InputProcessor
Return ==
  /\ pc = "done"
  /\ pc' = "idle"
  /\ call' = NoCall
  /\ logs' = <<>>
  /\ started' = 0
  /\ UNCHANGED sharedLogs

Next ==
  \/ CallValidateContainerNumber
  \/ CallFindLocation
  \/ CallDetect
  \/ CallExtractionConfidence
  \/ CallProcess
  \/ CallValidate
  \/ CallCalculateCheckDigit
  \/ CallExtractStatus
  \/ CallParseText
  \/ CallParse
  \/ Return

Spec == Init /\ [][Next]_vars

----------------------------------------------------------------------------
(* State machine of processBatch: the calls of process are started in the  *)
(* order of the inputs and run to their end in any order                   *)

\* the inputs of a batch: arrays of rows, an undefined content and a null
BatchElements ==
  { [content |-> JArr(<<RowFull>>), hint |-> None],
    [content |-> JArr(<<RowNoId, RowTypo>>), hint |-> None],
    [content |-> JUndefined, hint |-> None],
    [content |-> JNull, hint |-> None] }

\* the longest batch
MaxBatch == 3

BatchInputs == UNION {[1..n -> BatchElements] : n \in 0..MaxBatch}

\* the answer of parse for an element of a batch (the only possible one)
ParseOf(input) == CHOOSE parsed \in ParseOutcomesOf(input) : TRUE

NoOutcome == [rejected |-> FALSE, pending |-> TRUE]

BatchStarted(inputs, now, begun) ==
  /\ call' = [ op |-> "processBatch", input |-> inputs, now |-> now,
               promises |-> [i \in 1..Len(inputs) |-> BegunPromise(begun[i])],
               out |-> NoOutcome ]
  /\ logs' = IF Len(begun) = 0 THEN logs ELSE begun[Len(begun)].logs
  /\ started' = started + Len(SelectSeq(begun, LAMBDA b : ~HasThrown(b)))
  /\ UNCHANGED sharedLogs

CallProcessBatch ==
  /\ pc = "idle"
  /\ \E inputs \in BatchInputs, now \in Nows :
       BatchStarted(inputs, now, BatchBegun(logs, started + 1, inputs))
  /\ pc' = "batch"

\* the call of process for inputs[i] has run, with result, from its await to its return
ProcessContinued(i, result) ==
  /\ call' = [call EXCEPT !.promises[i] =
                FulfilledPromise(LoggedResult(result, FinalizedEntry(call.promises[i].entry, result)))]
  /\ logs' = ReplaceEntry(logs, FinalizedEntry(call.promises[i].entry, result))

\* one of the pending calls of process runs to its end, whether or not
\* Promise.all has settled already
ContinueProcess ==
  /\ pc \in {"batch", "done"}
  /\ call.op = "processBatch"
  /\ \E i \in 1..Len(call.promises) :
       /\ call.promises[i].state = "pending"
       /\ ProcessContinued(i, ProcessTried(call.input[i], ParseOf(call.input[i]), call.now))
  /\ UNCHANGED <<pc, started, sharedLogs>>

\* every promise is fulfilled: processBatch returns results and summary
BatchResolve ==
  /\ pc = "batch"
  /\ \A i \in 1..Len(call.promises) : call.promises[i].state = "fulfilled"
  /\ call' = [call EXCEPT !.out =
                BatchResolved([i \in 1..Len(call.promises) |-> call.promises[i].result])]
  /\ pc' = "done"
  /\ UNCHANGED <<logs, started, sharedLogs>>

\* a promise is rejected: Promise.all rejects, the await in processBatch
\* throws and the promise of processBatch is rejected
BatchReject ==
  /\ pc = "batch"
  /\ \E i \in 1..Len(call.promises) :
       /\ call.promises[i].state = "rejected"
       /\ \A j \in 1..(i - 1) : call.promises[j].state # "rejected"
       /\ call' = [call EXCEPT !.out = Rejected(call.promises[i].message)]
  /\ pc' = "done"
  /\ UNCHANGED <<logs, started, sharedLogs>>

NextBatch ==
  \/ CallProcessBatch
  \/ ContinueProcess
  \/ BatchResolve
  \/ BatchReject
  \/ Return

SpecBatch == Init /\ [][NextBatch]_vars

----------------------------------------------------------------------------
(* State machine of the audit log: calls of startProcessing on one logger  *)

\* a text, an array, an object, and an undefined content, for which
\* startProcessing throws
LoggerInputs ==
  {[content |-> c, hint |-> None] : c \in {PlainText, JArr(<<>>), RowFull, JUndefined}}

\* the calls after the first MaxVaried ones are made with an array or with
\* an undefined content
LaterLoggerInputs ==
  {[content |-> c, hint |-> None] : c \in {JArr(<<>>), JUndefined}}

\* the number of calls whose input is chosen freely
MaxVaried == 2

\* the number of entries that are created
MaxStarts == 1002

\* startProcessing has returned or thrown
Started(begun) ==
  /\ call' = [op |-> "startProcessing", threw |-> HasThrown(begun)]
  /\ logs' = begun.logs
  /\ started' = IF HasThrown(begun) THEN started ELSE started + 1
  /\ UNCHANGED sharedLogs

StartProcessing ==
  /\ started < MaxStarts
  /\ \E input \in (IF started < MaxVaried THEN LoggerInputs ELSE LaterLoggerInputs) :
       Started(startProcessing(logs, started + 1, input))
  /\ UNCHANGED <<pc, sharedLogs>>

NextLogger == StartProcessing

SpecLogger == Init /\ [][NextLogger]_vars

----------------------------------------------------------------------------
(* Properties of validateContainerNumber *)

IsContainerCall == pc = "done" /\ call.op = "validateContainerNumber"

\* the input already has the canonical shape and carries the right check digit
CanonicalWithCheckDigit(input) ==
  /\ MatchesShape(input, 7)
  /\ slice(input, 10, 11) = calculateCheckDigit(slice(input, 0, 10))

\* C2: an identifier of 4 letters + 7 digits whose 11th character is the check
\* digit computed from its first ten characters is reported with
\* checkDigitValid = true and a confidence of at least 0.95.
C2_CorrectCheckDigit ==
  (IsContainerCall /\ CanonicalWithCheckDigit(call.input))
    => /\ call.out.details.checkDigitValid
       /\ RLe(R(95, 100), call.out.confidence)

\* a correct check digit that comes from remainder 10, with the lowest confidence
C2_Witness ==
  /\ IsContainerCall
  /\ CanonicalWithCheckDigit(call.input)
  /\ call.input = S(<<"A","B","C","D","1","2","3","4","5","6","0">>)
  /\ call.out.confidence = R(95, 100)

\* positions among the first four characters that hold a look-alike digit
LookAlikeDigits == {Ord("0"), Ord("1"), Ord("5"), Ord("8")}
LookAlikeLetter(d) ==
  IF d = Ord("0") THEN Ord("O")
  ELSE IF d = Ord("1") THEN Ord("I")
  ELSE IF d = Ord("5") THEN Ord("S") ELSE Ord("B")

\* 4 letters + 7 digits in which exactly one of the four letters was typed as
\* its look-alike digit
OneLookAlikeTypo(input) ==
  /\ Len(input) = 11
  /\ \A i \in 5..11 : IsDigit(input[i])
  /\ \E i \in 1..4 :
       /\ input[i] \in LookAlikeDigits
       /\ \A j \in (1..4) \ {i} : IsUpperAZ(input[j])

Intended(input) ==
  [i \in 1..Len(input) |->
     IF i <= 4 /\ input[i] \in LookAlikeDigits THEN LookAlikeLetter(input[i])
     ELSE input[i]]

\* C3: a single look-alike digit among the first four characters is rewritten
\* to the letter, the result is valid and the corrections list holds the note
\* of the substitution.
C3_TypoCorrected ==
  (IsContainerCall /\ OneLookAlikeTypo(call.input))
    => /\ call.out.isValid
       /\ call.out.containerNumber = Intended(call.input)
       /\ IsSome(call.out.corrections)
       /\ \E k \in 1..Len(Get(call.out.corrections)) :
            Get(call.out.corrections)[k] =
              <<"typos", call.input, Intended(call.input)>>

\* scenario C of the specification: MSC01234560 becomes MSCO1234560
C3_Witness ==
  /\ IsContainerCall
  /\ call.input = S(<<"M","S","C","0","1","2","3","4","5","6","0">>)
  /\ call.out.containerNumber = S(<<"M","S","C","O","1","2","3","4","5","6","0">>)
  /\ call.out.isValid

\* C4: isValid is true exactly when the cleaned and typo-corrected input is
\* 4 letters + 6 or 7 digits, whatever the supplied check digit; the returned
\* number then is 4 letters + 7 digits; otherwise isValid is false, the
\* confidence is 0 and an error is set.
C4_ValidIffShape ==
  IsContainerCall =>
    LET fixed == CorrectTypos(CleanContainerInput(call.input))
        shape == MatchesShape(fixed, 7) \/ MatchesShape(fixed, 6)
    IN  /\ call.out.isValid <=> shape
        /\ call.out.isValid => MatchesShape(call.out.containerNumber, 7)
        /\ ~call.out.isValid =>
             /\ call.out.confidence = RZero
             /\ IsSome(call.out.error)

\* a 6-digit input accepted although no check digit was supplied
C4_Witness ==
  /\ IsContainerCall
  /\ call.input = S(<<"M","S","C","U","3","0","5","9","2","1">>)
  /\ call.out.isValid
  /\ call.out.containerNumber = S(<<"M","S","C","U","3","0","5","9","2","1","0">>)

\* a 7-digit input accepted although its check digit is wrong
C4_WitnessWrongDigit ==
  /\ IsContainerCall
  /\ call.out.isValid
  /\ ~call.out.details.checkDigitValid

----------------------------------------------------------------------------
(* Properties of findLocation *)

IsLocationCall == pc = "done" /\ call.op = "findLocation"

\* C7: looking up the canonical name of any gazetteer entry finds that same
\* name with confidence at least 0.95, whatever other keys occur inside it.
C7_CanonicalNameIdempotent ==
  (IsLocationCall /\ call.input \in CanonicalNames)
    => /\ call.out.found
       /\ IsSome(call.out.location)
       /\ Get(call.out.location).name = call.input
       /\ RLe(R(95, 100), call.out.confidence)

----------------------------------------------------------------------------
(* Properties of FormatDetector.detect *)

IsDetectCall == pc = "done" /\ call.op = "detect"

\* C5: detect never answers PLAIN_TEXT for an array content, whatever the
\* elements and whatever the hint.
C5_ArrayNeverPlainText ==
  (IsDetectCall /\ call.input.content.kind = "array")
    => /\ ~call.out.threw
       /\ call.out.type # "PLAIN_TEXT"

\* an array of strings with the hint "text"
C5_Witness ==
  /\ IsDetectCall
  /\ call.input.content = JArr(<<PlainText>>)
  /\ call.input.hint = Some("text")
  /\ call.out.type = "CSV_TEXT"

----------------------------------------------------------------------------
(* Properties of DataValidator.validate *)

IsValidateCall == pc = "done" /\ call.op = "validate"

\* the record that validate produced: normalized, else partialData, else None
ProducedRecord(out) == IF IsSome(out.normalized) THEN out.normalized ELSE out.partialData

\* the status token is one that the validator's table knows
RecognisedToken(value) ==
  Truthy(value) /\ \E i \in 1..Len(validStatuses) : validStatuses[i][1] = StatusKey(Get(value))

C9_ValidIffRule ==
  IsValidateCall =>
    LET out == call.out
    IN  /\ out.isValid <=> /\ Len(out.errors) = 0
                           /\ Truthy(call.input.containerNumber)
                           /\ RLe(R(5, 10), out.confidence)
        /\ IsSome(out.normalized) <=> out.isValid
        /\ out.isValid => ~IsSome(out.partialData)

\* an item that validates: no errors, normalized defined, no partialData
C9_Witness ==
  /\ IsValidateCall
  /\ call.out.isValid
  /\ Len(call.out.errors) = 0
  /\ IsSome(call.out.normalized)

\* an item with a container number that is rejected because of an error
C9_WitnessRejected ==
  /\ IsValidateCall
  /\ Truthy(call.input.containerNumber)
  /\ ~call.out.isValid
  /\ Len(call.out.errors) > 0
  /\ IsSome(call.out.partialData)

\* C10: the consistency findings of validate (status/location-type mismatch,
\* ETA in the past, implausible or negative distance, DELIVERED with a
\* distance) are recorded as warnings only: errors holds nothing but findings
\* about the container number, and an item whose container number has a valid
\* shape is valid whichever consistency findings occur.
C10_ConsistencyOnlyWarnings ==
  IsValidateCall =>
    /\ \A i \in 1..Len(call.out.errors) :
         call.out.errors[i][1] \in {"containerRequired", "container"}
    /\ ( /\ Truthy(call.input.containerNumber)
         /\ validateContainerNumber(Get(call.input.containerNumber)).isValid )
       => call.out.isValid

----------------------------------------------------------------------------
(* Properties of the confidences *)

\* the confidences a finished call returns
ReturnedConfidences ==
  CASE call.op = "detect" ->
         IF HasThrown(call.out) THEN {} ELSE {call.out.confidence}
    [] call.op = "extractionConfidence" -> {call.out}
    [] call.op = "validateContainerNumber" -> {call.out.confidence}
    [] call.op = "findLocation" -> {call.out.confidence}
    [] call.op = "validate" ->
         { call.out.confidence,
           call.out.validationDetails.locationConfidence,
           call.out.validationDetails.statusConfidence,
           call.out.validationDetails.dataCompleteness,
           call.out.validationDetails.consistencyScore }
         \cup (IF IsSome(call.out.validationDetails.containerValidation)
               THEN {Get(call.out.validationDetails.containerValidation).confidence}
               ELSE {})
    [] call.op = "process" ->
         IF call.out.rejected THEN {} ELSE {call.out.confidence}
    [] OTHER -> {}

\* C1: every confidence that detect, an extraction, validateContainerNumber,
\* findLocation, validate (the sub-scores of validationDetails included) or
\* process returns lies between 0 and 1, both included.
C1_ConfidencesInUnit ==
  pc = "done" => \A x \in ReturnedConfidences : InUnit(x)

\* validate returns exactly 1 for an item whose bonuses would add up to more
\* than 1: the identifier alone has confidence 1, status and place are known
C1_Witness ==
  /\ IsValidateCall
  /\ call.out.confidence = ROne
  /\ Get(call.out.validationDetails.containerValidation).confidence = ROne
  /\ call.out.validationDetails.statusConfidence = R(95, 100)
  /\ call.out.validationDetails.locationConfidence = R(95, 100)

\* process returns 0 for the empty array
C1_WitnessEmpty ==
  /\ pc = "done" /\ call.op = "process"
  /\ call.input.content = JArr(<<>>)
  /\ ~call.out.rejected
  /\ call.out.confidence = RZero
  /\ ~call.out.success

\* process returns the mean of two validation confidences that differ
C1_WitnessMean ==
  /\ pc = "done" /\ call.op = "process"
  /\ ~call.out.rejected
  /\ IsSome(call.out.data) /\ Len(Get(call.out.data)) = 2
  /\ RLt(call.out.confidence, ROne) /\ RLt(R(5, 10), call.out.confidence)

\* an extraction from text whose bonuses add up to more than 1
C1_WitnessExtraction ==
  /\ pc = "done" /\ call.op = "extractionConfidence"
  /\ call.input.kind = "text"
  /\ call.out = ROne
  /\ Truthy(call.input.item.destination) /\ Truthy(call.input.item.origin)

----------------------------------------------------------------------------
(* Properties of process *)

IsProcessCall == pc = "done" /\ call.op = "process"

\* C11: process never rejects: for every RawInput (an undefined or null
\* content included) its promise resolves to a result with a confidence and a
\* processingLog, and a result with success = false carries a non-empty list
\* of errors.
C11_ProcessAlwaysResolves ==
  IsProcessCall =>
    /\ ~call.out.rejected
    /\ ~call.out.success =>
         (IsSome(call.out.errors) /\ Len(Get(call.out.errors)) > 0)

\* the records that a result of process carries
RecordsOf(out) == IF IsSome(out.data) THEN Get(out.data) ELSE <<>>

\* the records of process for the array that holds one row only
AloneRecords(row, hint, now) ==
  RecordsOf(ProcessTried([content |-> JArr(<<row>>), hint |-> hint],
                         parseJsonArray(JArr(<<row>>)), now))

IsArrayCall == IsProcessCall /\ call.input.content.kind = "array"

\* C12: a row of an array that cannot be parsed or validated does not reach
\* the caller as an exception and leaves the records of the other rows as
\* they are: the records of the array are, row by row, the records that each
\* row gives when it is processed alone.
C12_BadRowIsolated ==
  IsArrayCall =>
    /\ ~call.out.rejected
    /\ RecordsOf(call.out)
         = Flatten([i \in 1..Len(call.input.content.items) |->
                      AloneRecords(call.input.content.items[i], call.input.hint, call.now)])

----------------------------------------------------------------------------
(* Properties of processBatch *)

IsBatchReturn == pc = "done" /\ call.op = "processBatch"

\* what process(input) gives when it is called alone, on a new processor
AloneOutcome(input, now) == process(<<>>, 1, input, ParseOf(input), now).result

\* two outcomes of process that differ in the id of the log entry at most
SameOutcome(a, b) ==
  /\ a.rejected = b.rejected
  /\ ~a.rejected =>
       /\ [a EXCEPT !.processingLog = 0] = [b EXCEPT !.processingLog = 0]
       /\ [a.processingLog EXCEPT !.id = 0] = [b.processingLog EXCEPT !.id = 0]

\* C13: processBatch returns one result per input, in the order of the
\* inputs, whatever the order in which the calls of process run to their end,
\* and results[i] is what process(inputs[i]) returns when it is called alone.
C13_BatchIndependent ==
  IsBatchReturn =>
    /\ ~call.out.rejected
    /\ Len(call.out.results) = Len(call.input)
    /\ \A i \in 1..Len(call.input) :
         SameOutcome(call.out.results[i], AloneOutcome(call.input[i], call.now))

\* the part of C13 that the code keeps: a batch that is not rejected returns
\* one result per input, each as if it were processed alone
BatchResultsIndependent ==
  (IsBatchReturn /\ ~call.out.rejected) =>
    /\ Len(call.out.results) = Len(call.input)
    /\ \A i \in 1..Len(call.input) :
         SameOutcome(call.out.results[i], AloneOutcome(call.input[i], call.now))

----------------------------------------------------------------------------
(* Frame of DataValidator.validate *)

IsValidateReturn == pc = "done" /\ call.op = "validate" /\ ~HasThrown(call.out)

\* C14: validate does not change the ParsedItem it is given: after the call
\* every field of the item, containerNumber, locationType and
\* distanceToDestination included, has the value it had before the call.
C14_ValidateKeepsItem ==
  IsValidateReturn => call.out.item = call.input

----------------------------------------------------------------------------
(* Properties of the audit log *)

\* C15: after n calls of startProcessing that created an entry (started = n;
\* the entries are numbered 1, 2, ... in the order of their creation) the
\* audit log holds min(n, 1000) entries, which are the newest ones, newest
\* first: only the oldest entries are gone, and the log is never longer than
\* 1000.
C15_LogKeepsNewest ==
  /\ Len(logs) = (IF started < maxLogs THEN started ELSE maxLogs)
  /\ Len(logs) <= 1000
  /\ \A i \in 1..Len(logs) : logs[i].id = started - i + 1

\* the 1001st entry has been created and the first one has been evicted
C15_Witness ==
  /\ started = maxLogs + 1
  /\ Len(logs) = maxLogs
  /\ logs[1].id = maxLogs + 1
  /\ logs[maxLogs].id = 2

----------------------------------------------------------------------------
(* Properties of the dates of table rows *)

\* the value of a date field of the row is a text that parseDate cannot read
UnreadableDate(value) == value.kind = "string" /\ ~IsSome(parseDate(value))

\* the row carries an ETA or an event date that cannot be read
HasBadDate(row) ==
  \/ UnreadableDate(findField(NormalizedRow(row), EtaNames))
  \/ UnreadableDate(findField(NormalizedRow(row), EventTimeNames))

\* the rows of the array of the call
CallRows == call.input.content.items

\* the call is process on an array of row objects with text identifiers
IsRowsCall ==
  /\ IsArrayCall
  /\ ~call.out.rejected
  /\ Len(CallRows) > 0
  /\ \A i \in 1..Len(CallRows) : CallRows[i] \in ProcessRows \ {RowNumberId, RowNumberStatus}

\* the warnings of a result that report a date that cannot be read: the
\* warning of validate for an ETA, passed on by process with the number
BadDateWarnings(out) ==
  SelectSeq(IF IsSome(out.warnings) THEN Get(out.warnings) ELSE <<>>,
            LAMBDA w : w[1] = "item" /\ w[3][1] = "invalidEta")

\* the items of the rows that carry no bad date
GoodDateItems(rows, items) ==
  Flatten([i \in 1..Len(rows) |-> IF HasBadDate(rows[i]) THEN <<>> ELSE <<items[i]>>])

\* C16: an array of N row objects of which k carry a date that cannot be
\* read gives N items and exactly k warnings about a bad date, and the items
\* of the other rows are those of the array without the k rows.
C16_BadDatesWarned ==
  IsRowsCall =>
    /\ Len(call.parsed.items) = Len(CallRows)
    /\ Len(BadDateWarnings(call.out)) = Len(SelectSeq(CallRows, HasBadDate))
    /\ GoodDateItems(CallRows, call.parsed.items)
         = parseJsonArray(JArr(SelectSeq(CallRows, LAMBDA row : ~HasBadDate(row)))).items

----------------------------------------------------------------------------
(* Properties of the hint *)

IsHintedCall == IsDetectCall /\ IsSome(call.input.hint)

\* the format that a hint stands for when the content is not an array
HintedType(hint) ==
  CASE hint = "text" -> "PLAIN_TEXT"
    [] hint = "json" -> "JSON_OBJECT"
    [] hint = "csv" -> "CSV_TEXT"
    [] hint = "table" -> "TABLE_ROW"

\* the formats that detectWithHint can answer for a hint
HintedTypes(hint) ==
  CASE hint = "text" -> {"PLAIN_TEXT"}
    [] hint = "json" -> {"JSON_OBJECT", "JSON_ARRAY"}
    [] hint = "csv" -> {"CSV_TEXT"}
    [] hint = "table" -> {"TABLE_ROW", "TABLE_ROWS"}

\* what detect answers for the content when there is no hint
Unhinted(input) == detect([content |-> input.content, hint |-> None])

----------------------------------------------------------------------------
(* Properties of the text branch *)

IsStatusCall == pc = "done" /\ call.op = "extractStatus"

\* the keyword of entry j contains a keyword of entry i, whose code is another
\* one, and the text contains the keyword of entry j
OvershadowedBy(lowerText, i, j) ==
  /\ statusMap[i].code # statusMap[j].code
  /\ \E a \in 1..Len(statusMap[i].keywords), b \in 1..Len(statusMap[j].keywords) :
       /\ includes(statusMap[j].keywords[b], statusMap[i].keywords[a])
       /\ includes(lowerText, statusMap[j].keywords[b])

\* C18: when a keyword of one code is contained in a longer keyword of
\* another code, a text that contains the longer keyword does not resolve to
\* the code of the shorter one: the entry of the longer keyword is tested
\* first.
C18_LongerKeywordWins ==
  IsStatusCall =>
    \A i \in 1..Len(statusMap), j \in 1..Len(statusMap) :
      OvershadowedBy(toLowerCase(call.input), i, j) =>
        /\ call.out # statusMap[i].code
        /\ j < i

\* parseText was called on a text in which no container number is found
IsNumberlessText ==
  /\ pc = "done" /\ call.op = "parseText"
  /\ Len(extractContainerNumbers(call.input)) = 0

\* the text carries a status other than UNKNOWN, or a place
HasSignal(text) ==
  extractStatus(text) # Get(UnknownStatus) \/ Truthy(extractLocation(text))

\* C19: for a text without a container number, parseText gives one item
\* without a number and the warning that the number was not found if the
\* text carries a status or a place, and otherwise no item and the error
\* that nothing useful was found.
C19_ItemOnlyWithSignal ==
  IsNumberlessText =>
    IF HasSignal(call.input)
    THEN /\ Len(call.out.items) = 1
         /\ ~Truthy(call.out.items[1].containerNumber)
         /\ call.out.warnings = << <<"containerNotFound">> >>
         /\ call.out.errors = <<>>
    ELSE /\ call.out.items = <<>>
         /\ call.out.errors = << <<"noUsefulData">> >>

----------------------------------------------------------------------------
(* Properties of calculateCheckDigit *)

IsCheckDigitCall == pc = "done" /\ call.op = "calculateCheckDigit"

\* the value of the n-th letter (A is the first): the n-th of the integers
\* from 10 on that are no multiple of 11
LetterValue(n) ==
  CHOOSE v \in 10..38 : v % 11 # 0 /\ Cardinality({u \in 10..v : u % 11 # 0}) = n

\* a digit has its own value
CharacterValue(c) == IF IsDigit(c) THEN c - 48 ELSE LetterValue(c - 64)

\* the sum of value(code[i]) * 2^i over the positions i = 0..9
WeightedSum(code) ==
  CharacterValue(code[1]) + CharacterValue(code[2]) * 2 + CharacterValue(code[3]) * 4
  + CharacterValue(code[4]) * 8 + CharacterValue(code[5]) * 16 + CharacterValue(code[6]) * 32
  + CharacterValue(code[7]) * 64 + CharacterValue(code[8]) * 128
  + CharacterValue(code[9]) * 256 + CharacterValue(code[10]) * 512

\* C20: for a code of four letters and six digits calculateCheckDigit returns
\* the weighted sum modulo 11 as one digit, a remainder of 10 as "0".
C20_CheckDigitIsWeightedSum ==
  IsCheckDigitCall =>
    /\ Len(call.out) = 1
    /\ IsDigit(call.out[1])
    /\ call.out[1] - 48 = (IF WeightedSum(call.input) % 11 = 10 THEN 0
                           ELSE WeightedSum(call.input) % 11)

\* a code whose weighted sum leaves the remainder 10, with a letter beyond
\* the first skipped value
C20_Witness ==
  /\ IsCheckDigitCall
  /\ WeightedSum(call.input) % 11 = 10
  /\ \E i \in 1..4 : call.input[i] > 75
  /\ call.out = <<48>>

----------------------------------------------------------------------------
(* Properties of the identifier confidence *)

\* the input was neither rewritten nor completed: no look-alike character was
\* replaced and no check digit was appended
NoCharacterCorrections(input) ==
  /\ CorrectTypos(CleanContainerInput(input)) = CleanContainerInput(input)
  /\ MatchesShape(CleanContainerInput(input), 7)

\* the confidence of the policy: 0.85, +0.10 for a matching check digit, +0.05
\* for a registered owner prefix, +0.02 for an input without character
\* corrections, at most 1
PolicyConfidence(checkDigitValid, isKnownOwner, uncorrected) ==
  RMin(RAdd(RAdd(RAdd(R(85, 100),
                      IF checkDigitValid THEN R(10, 100) ELSE RZero),
                 IF isKnownOwner THEN R(5, 100) ELSE RZero),
            IF uncorrected THEN R(2, 100) ELSE RZero),
       ROne)

\* C21: for every identifier of the accepted shape the confidence is
\* min(1, 0.85 + 0.10 [check digit matches] + 0.05 [owner prefix registered]
\* + 0.02 [no character corrections]); an identifier that needed no rewriting
\* gets the +0.02 also when its check digit is wrong or its category letter
\* is unusual.
C21_ConfidencePolicy ==
  (IsContainerCall /\ call.out.isValid) =>
    call.out.confidence =
      PolicyConfidence(call.out.details.checkDigitValid,
                       call.out.details.isKnownOwner,
                       NoCharacterCorrections(call.input))

\* the cleaned and typo-corrected input is 4 letters + 6 digits
IsShortForm(input) == MatchesShape(CorrectTypos(CleanContainerInput(input)), 6)

\* C22: an input that, cleaned and typo-corrected, is 4 letters + 6 digits gets
\* the computed check digit appended: the returned containerNumber has 11
\* characters, the ten corrected ones first, checkDigitValid is true, and
\* validating the returned containerNumber returns the same containerNumber.
C22_ShortFormCompleted ==
  (IsContainerCall /\ IsShortForm(call.input)) =>
    /\ Len(call.out.containerNumber) = 11
    /\ slice(call.out.containerNumber, 0, 10) = CorrectTypos(CleanContainerInput(call.input))
    /\ slice(call.out.containerNumber, 10, 11) = call.out.details.calculatedCheckDigit
    /\ call.out.details.checkDigitValid
    /\ validateContainerNumber(call.out.containerNumber).containerNumber
         = call.out.containerNumber

\* a short form with a look-alike digit in the owner part, completed by the
\* check digit 5; and a short form whose remainder is 10, completed by 0
C22_Witness ==
  /\ IsContainerCall
  /\ IsShortForm(call.input)
  /\ \/ /\ call.input = S(<<"M","5","K","U","1","2","3","4","5","6">>)
        /\ call.out.containerNumber = S(<<"M","S","K","U","1","2","3","4","5","6","5">>)
     \/ /\ call.input = S(<<"A","B","C","D","1","2","3","4","5","6">>)
        /\ call.out.containerNumber = S(<<"A","B","C","D","1","2","3","4","5","6","0">>)

----------------------------------------------------------------------------
(* Properties of the distance check of validate *)

\* validate was called on an item that carries a distance
IsDistanceCall == IsValidateCall /\ IsSome(call.input.distanceToDestination)

OutOfRange(d) == RLt(d, RZero) \/ RLt(R(20000, 1), d)

\* the warnings of validate that are about the distance
DistanceWarnings(out) ==
  SelectSeq(out.warnings,
            LAMBDA w : w[1] \in {"negativeDistance", "unusuallyLargeDistance"})

\* the findings about the distance among the errors of validate
DistanceErrors(out) ==
  SelectSeq(out.errors,
            LAMBDA e : e[1] \in {"negativeDistance", "unusuallyLargeDistance",
                                 "deliveredButDistance"})

\* C23: a distance below 0 or above 20,000 km is discarded (the produced
\* record has no distanceToDestinationKm) and a warning about it is added; a
\* distance in 0..20,000 is kept, rounded to an integer; DELIVERED with a
\* distance above 0 adds a warning; no finding about the distance is a hard
\* error.
C23_DistanceDiscardedWithWarning ==
  IsDistanceCall =>
    LET d == Get(call.input.distanceToDestination)
        rec == ProducedRecord(call.out)
    IN  /\ OutOfRange(d) =>
             /\ Len(DistanceWarnings(call.out)) > 0
             /\ IsSome(rec) => Get(rec).distanceToDestinationKm = None
        /\ (~OutOfRange(d) /\ IsSome(rec)) =>
             Get(rec).distanceToDestinationKm = Some(MathRound(d))
        /\ ( /\ validateAndMapStatus(call.input.statusCode) = "DELIVERED"
             /\ RLt(RZero, d) ) =>
             \E i \in 1..Len(call.out.warnings) :
               call.out.warnings[i][1] = "deliveredButDistance"
        /\ Len(DistanceErrors(call.out)) = 0

----------------------------------------------------------------------------
(* Properties of the final confidence of validate *)

\* validate returned a result for the item
IsValidateResult == IsValidateCall /\ ~HasThrown(call.out)

\* the identifier of the item validated
IdentifierValidated(item) ==
  /\ Truthy(item.containerNumber)
  /\ validateContainerNumber(Get(item.containerNumber)).isValid

\* the place of the produced record is an entry of the gazetteer
ResolvedInGazetteer(out) ==
  /\ IsSome(ProducedRecord(out))
  /\ Truthy(Get(ProducedRecord(out)).location)
  /\ Get(Get(ProducedRecord(out)).location) \in CanonicalNames

\* a consistency finding lowered the consistency score
ConsistencyPenalty(out) ==
  \E i \in 1..Len(out.warnings) :
    out.warnings[i][1] \in {"locationTypeMismatch", "unusuallyLargeDistance",
                            "deliveredButDistance", "etaInPast"}

\* the fraction of identifier, known status, location, ETA, distance and
\* origin-or-destination that are present: an identifier that is not empty, a
\* status other than UNKNOWN, a location that is not blank, an ETA that reads
\* as a date, a distance that is not negative, an origin or a destination
Completeness(item) ==
  R((IF Truthy(item.containerNumber) THEN 1 ELSE 0)
    + (IF validateAndMapStatus(item.statusCode) # "UNKNOWN" THEN 1 ELSE 0)
    + (IF Truthy(item.location) /\ Len(trim(Get(item.location))) > 0 THEN 1 ELSE 0)
    + (IF IsSome(validateDate(item.eta)) THEN 1 ELSE 0)
    + (IF IsSome(item.distanceToDestination)
          /\ ~RLt(Get(item.distanceToDestination), RZero) THEN 1 ELSE 0)
    + (IF Truthy(item.origin) \/ Truthy(item.destination) THEN 1 ELSE 0), 6)

\* the bonuses on top of the confidence of a validated identifier, capped
WithBonuses(item, out) ==
  RMin(ROne,
       RAdd(RAdd(RAdd(RAdd(
         validateContainerNumber(Get(item.containerNumber)).confidence,
         IF validateAndMapStatus(item.statusCode) # "UNKNOWN" THEN R(5, 100) ELSE RZero),
         IF ResolvedInGazetteer(out) THEN R(5, 100) ELSE RZero),
         IF RLt(R(1, 2), Completeness(item)) THEN R(3, 100) ELSE RZero),
         IF ~ConsistencyPenalty(out) THEN R(2, 100) ELSE RZero))

\* the blend of the sub-scores with the weights 0.3, 0.3 and 0.4
Blended(item, out) ==
  RAdd(RAdd(RMul(R(3, 10), out.validationDetails.statusConfidence),
            RMul(R(3, 10), out.validationDetails.locationConfidence)),
       RMul(R(4, 10), Completeness(item)))

\* the value before the penalties, then halved for a hard error and taken
\* times 0.95 for more than three warnings
FinalConfidence(item, out) ==
  RMul(RMul(IF IdentifierValidated(item) THEN WithBonuses(item, out)
            ELSE Blended(item, out),
            IF Len(out.errors) >= 1 THEN R(1, 2) ELSE ROne),
       IF Len(out.warnings) > 3 THEN R(95, 100) ELSE ROne)

\* C24: the confidence of validate is, for a validated identifier,
\* min(1, idConfidence + 0.05 [status known] + 0.05 [location resolved in the
\* gazetteer] + 0.03 [completeness > 0.5] + 0.02 [no consistency penalty]),
\* otherwise 0.3 statusConfidence + 0.3 locationConfidence + 0.4 completeness;
\* times 0.5 with a hard error and times 0.95 with more than three warnings.
\* The result carries this value rounded to hundredths.
C24_FinalConfidence ==
  IsValidateResult =>
    /\ call.out.confidence = RoundHundredths(FinalConfidence(call.input, call.out))
    /\ call.out.validationDetails.dataCompleteness = Completeness(call.input)

\* a validated identifier with a hard error and more than three warnings
C24_Witness ==
  /\ IsValidateResult
  /\ IdentifierValidated(call.input)
  /\ Len(call.out.errors) >= 1
  /\ Len(call.out.warnings) > 3
  /\ RLt(RZero, call.out.confidence)

\* an identifier that did not validate: the blend, halved
C24_WitnessBlend ==
  /\ IsValidateResult
  /\ ~IdentifierValidated(call.input)
  /\ ResolvedInGazetteer(call.out)
  /\ call.out.confidence = RoundHundredths(RMul(R(1, 2), Blended(call.input, call.out)))
  /\ RLt(R(3, 10), call.out.confidence)

\* exactly three warnings: no penalty for warnings
C24_WitnessThree ==
  /\ IsValidateResult
  /\ IdentifierValidated(call.input)
  /\ Len(call.out.warnings) = 3
  /\ Len(call.out.errors) = 0
  /\ call.out.confidence = WithBonuses(call.input, call.out)

----------------------------------------------------------------------------
(* Properties of the overall confidence of process *)

\* process returned from its try block: detection, parsing and every
\* validation ran to their end
IsProcessResult ==
  /\ IsProcessCall
  /\ ~call.out.rejected
  /\ IsSome(call.out.detectedFormat)

\* the results of validate for the parsed items of the call
CallValidations ==
  [i \in 1..Len(call.parsed.items) |-> validate(call.parsed.items[i], call.now)]

\* the arithmetic mean of the confidences of a non-empty list of validations
MeanConfidence(validations) ==
  RMul(RSum([i \in 1..Len(validations) |-> validations[i].confidence]),
       R(1, Len(validations)))

\* the item is salvaged: it did not validate, has partial data and a
\* confidence above 0.3
IsSalvaged(v) == ~v.isValid /\ IsSome(v.partialData) /\ RLt(R(3, 10), v.confidence)

\* C25 as stated: the overall confidence is the mean of the confidences of
\* the items that validated whenever one validated; the confidences of
\* partial and rejected items do not enter it.
C25_MeanOfValidated ==
  IsProcessResult =>
    LET valid == SelectSeq(CallValidations, LAMBDA v : v.isValid)
    IN  Len(valid) > 0 => call.out.confidence = MeanConfidence(valid)

\* C25, amended: the overall confidence is the mean of the confidences of the
\* items whose record is in data, the validated ones and the salvaged partial
\* ones, whenever data holds a record; the fallback formula is returned only
\* when no record is kept; the confidences of rejected items do not enter
\* the mean.
C25_MeanOfKept ==
  IsProcessResult =>
    LET kept == SelectSeq(CallValidations, LAMBDA v : v.isValid \/ IsSalvaged(v))
    IN  /\ Len(RecordsOf(call.out)) = Len(kept)
        /\ Len(kept) > 0 => call.out.confidence = MeanConfidence(kept)
        /\ Len(kept) = 0 =>
             call.out.confidence =
               calculateConfidence(Get(call.out.detectedFormat), call.parsed, <<>>,
                                   IF IsSome(call.out.errors)
                                   THEN Get(call.out.errors) ELSE <<>>)

\* one validated item, one salvaged item and the mean of both
C25_Witness ==
  /\ IsProcessResult
  /\ Len(CallValidations) = 2
  /\ \E i, j \in 1..2 :
       /\ CallValidations[i].isValid
       /\ IsSalvaged(CallValidations[j])
       /\ CallValidations[i].confidence # CallValidations[j].confidence
  /\ call.out.confidence = MeanConfidence(CallValidations)

\* nothing was parsed, no record is kept and the fallback is returned
C25_WitnessFallback ==
  /\ IsProcessResult
  /\ Len(call.parsed.items) = 0
  /\ ~call.out.success
  /\ RLt(RZero, call.out.confidence)

\* every parsed item is rejected: the fallback is 0
C25_WitnessRejected ==
  /\ IsProcessResult
  /\ Len(call.parsed.items) > 0
  /\ ~call.out.success
  /\ call.out.confidence = RZero

----------------------------------------------------------------------------
(* Properties of parse for rows wrapped in an object *)

\* the object that the content is, or that its JSON text stands for
ContentObject(content) ==
  IF content.kind = "string" /\ IsSome(content.json) THEN Get(content.json) ELSE content

\* the nested array of row objects: rows, else data
WrappedArray(obj) ==
  IF Field(obj, S(<<"r","o","w","s">>)).kind = "array"
  THEN Field(obj, S(<<"r","o","w","s">>)).items
  ELSE Field(obj, S(<<"d","a","t","a">>)).items

\* parse was called on an object (or its JSON text) that has fewer than two
\* table-like keys and holds row objects under rows or data
IsWrappedCall ==
  /\ pc = "done" /\ call.op = "parse"
  /\ ContentObject(call.input.content).kind = "object"
  /\ ~hasTableFields(ContentObject(call.input.content))
  /\ \/ Field(ContentObject(call.input.content), S(<<"r","o","w","s">>)).kind = "array"
     \/ Field(ContentObject(call.input.content), S(<<"d","a","t","a">>)).kind = "array"
  /\ \A i \in 1..Len(WrappedArray(ContentObject(call.input.content))) :
       WrappedArray(ContentObject(call.input.content))[i].kind = "object"

\* C26: for an object, or the JSON text of one, with fewer than two
\* table-like keys that wraps N row objects in a rows or data array,
\* detection followed by parsing gives exactly N items, the i-th mapped from
\* the fields of the i-th row.
C26_WrappedRowsParsed ==
  IsWrappedCall =>
    LET rows == WrappedArray(ContentObject(call.input.content))
    IN  /\ ~HasThrown(call.out)
        /\ Len(call.out.items) = Len(rows)
        /\ \A i \in 1..Len(rows) : call.out.items[i] = mapTableRow(rows[i]).item

----------------------------------------------------------------------------
(* Properties of the identifiers in the records of process *)

\* the parsed items of the call whose identifier validateContainerNumber
\* does not accept
InvalidIdentifiers ==
  { Get(call.parsed.items[i].containerNumber) :
      i \in { j \in 1..Len(call.parsed.items) :
                /\ IsSome(call.parsed.items[j].containerNumber)
                /\ ~validateContainerNumber(Get(call.parsed.items[j].containerNumber)).isValid } }

\* C27: every record in the data of a result of process that carries a
\* containerNumber carries one of 4 letters + 7 digits, and no record
\* carries the identifier of a parsed item that failed shape validation.
C27_RecordsCarryCanonicalIdentifier ==
  IsProcessResult =>
    \A i \in 1..Len(RecordsOf(call.out)) :
      IsSome(RecordsOf(call.out)[i].containerNumber) =>
        /\ MatchesShape(Get(RecordsOf(call.out)[i].containerNumber), 7)
        /\ Get(RecordsOf(call.out)[i].containerNumber) \notin InvalidIdentifiers

----------------------------------------------------------------------------
(* Properties of process for a free text *)

\* process has settled for a text that detection takes for plain text
IsFreeTextResult ==
  /\ IsProcessResult
  /\ call.input.content.kind = "string"
  /\ Get(call.out.detectedFormat).type = "PLAIN_TEXT"

\* C28: for one free text process never returns two records with the same
\* containerNumber, also when the text mentions a container with six digits
\* and with seven, or misspelt and spelt right.
C28_OneRecordPerContainer ==
  IsFreeTextResult =>
    \A i, j \in 1..Len(RecordsOf(call.out)) :
      /\ i # j
      /\ IsSome(RecordsOf(call.out)[i].containerNumber)
      => RecordsOf(call.out)[i].containerNumber # RecordsOf(call.out)[j].containerNumber

----------------------------------------------------------------------------
(* Properties of the summary of processBatch *)

\* processBatch has returned results and summary
IsBatchSummary == IsBatchReturn /\ ~call.out.rejected

\* one of the items is salvaged
HasSalvagedIn(items, now) ==
  \E i \in 1..Len(items) : IsSalvaged(validate(items[i], now))

\* the data of process(input) holds the record of a salvaged item
HasSalvagedRecord(input, now) == HasSalvagedIn(ParseOf(input).items, now)

\* the class of the summary that a result is counted in
SummaryClasses(r) ==
  {c \in {"successful", "failed", "partialSuccess"} :
     \/ c = "successful" /\ r.success /\ ~Truthy(r.warnings)
     \/ c = "failed" /\ ~r.success
     \/ c = "partialSuccess" /\ r.success /\ Truthy(r.warnings)}

\* the number of results counted in a class
CountedIn(results, c) ==
  Cardinality({i \in 1..Len(results) : c \in SummaryClasses(results[i])})

\* C29: in the summary that processBatch returns, successful + failed +
\* partialSuccess = total = inputs.length, every result is counted in exactly
\* one of the three classes, and a result whose data holds the record of a
\* salvaged item is counted as partialSuccess.
C29_SummaryPartitions ==
  IsBatchSummary =>
    /\ call.out.summary.successful + call.out.summary.failed
         + call.out.summary.partialSuccess = call.out.summary.total
    /\ call.out.summary.total = Len(call.input)
    /\ call.out.summary.successful = CountedIn(call.out.results, "successful")
    /\ call.out.summary.failed = CountedIn(call.out.results, "failed")
    /\ call.out.summary.partialSuccess = CountedIn(call.out.results, "partialSuccess")
    /\ \A i \in 1..Len(call.input) :
         /\ Cardinality(SummaryClasses(call.out.results[i])) = 1
         /\ HasSalvagedRecord(call.input[i], call.now) =>
              SummaryClasses(call.out.results[i]) = {"partialSuccess"}

\* a batch with a result of each class, the partial one with a salvaged record
C29_Witness ==
  /\ IsBatchSummary
  /\ call.out.summary.successful > 0
  /\ call.out.summary.failed > 0
  /\ call.out.summary.partialSuccess > 0
  /\ \E i \in 1..Len(call.input) : HasSalvagedRecord(call.input[i], call.now)

----------------------------------------------------------------------------
(* Properties of the audit log that the endpoints read *)

\* every call of process that a batch made on the processor has returned
IsBatchDone ==
  /\ IsBatchSummary
  /\ \A i \in 1..Len(call.promises) : call.promises[i].state = "fulfilled"

\* the number of calls of the batch that returned success = true
SuccessfulCalls ==
  Cardinality({i \in 1..Len(call.out.results) : call.out.results[i].success})

\* C30: after n calls of process on the processor, the log of the exported
\* processingLogger, which getRecentLogs and getStats of the logs and stats
\* endpoints read, holds one entry per call: totalProcessed = n and
\* successCount = the number of calls that returned success = true.
C30_SharedLogHasEveryCall ==
  IsBatchDone =>
    /\ getStats(sharedLogs).totalProcessed = Len(call.input)
    /\ getStats(sharedLogs).successCount = SuccessfulCalls
    /\ Len(getRecentLogs(sharedLogs, 100)) = Len(call.input)

====
